---- MODULE Spec2Model ----
(***************************************************************************)
(* A model of simple_trader's backtest engine (src/trader/backtest.py) and *)
(* of the strategies it drives (src/trader/strategies.py).                 *)
(*                                                                         *)
(* A price series is the sequence of its closes; position p of a sequence  *)
(* is pandas row p-1 (bar index p-1).  Floating-point numbers are modelled *)
(* as exact rationals <<numerator, denominator>> in lowest terms with a    *)
(* positive denominator; NaN is <<0, 0>>.                                  *)
(***************************************************************************)
EXTENDS Integers, Sequences, FiniteSets, TLC

(***************************************************************************)
(* Bounds of the model and constants of the program.                       *)
(***************************************************************************)
\* range(60, len(df)), [0] * 60 and len(self.df) < 60 in Backtester.run
Warmup == 60
\* a fetched series has at most Warmup + MaxExtra bars
MaxExtra == 3
\* the leverage argument is drawn from 1..MaxLeverage
MaxLeverage == 2
\* Backtester.__init__'s default initial_capital
DefaultCapital == 1000
\* the trade statistics are explored on lists of at most MaxTrades returns
MaxTrades == 3
\* a frame handed to a strategy on its own has HistoryTail arbitrary last closes
HistoryTail == 2
\* a crossover strategy object is called at most MaxCalls times
MaxCalls == 5

\* the closes a series is made of, and the close of its flat stretch
Prices == {1, 2, 3}
BasePrice == CHOOSE b \in Prices :
                 Cardinality({q \in Prices : q < b})
                     = Cardinality({q \in Prices : q > b})
Leverages == 1..MaxLeverage
Modes == {"long_only", "leveraged"}
StrategyNames == {"breakout", "sma_no_rsi"}

\* Signal(Enum)
LONG == 1
SHORT == -1
NEUTRAL == 0

(***************************************************************************)
(* Exact arithmetic standing in for float64.                               *)
(***************************************************************************)
Abs(x) == IF x < 0 THEN -x ELSE x

RECURSIVE GCD(_, _)
GCD(a, b) == IF b = 0 THEN a ELSE GCD(b, a % b)

NaN == <<0, 0>>
IsNaN(x) == x[2] = 0
Norm(n, d) ==
    IF d = 0 THEN NaN
    ELSE LET s == IF d < 0 THEN -1 ELSE 1
             g == GCD(Abs(n), Abs(d))
         IN  <<(s * n) \div g, (s * d) \div g>>
Rat(n) == <<n, 1>>
RAdd(x, y) == IF IsNaN(x) \/ IsNaN(y) THEN NaN
              ELSE Norm(x[1] * y[2] + y[1] * x[2], x[2] * y[2])
RSub(x, y) == IF IsNaN(x) \/ IsNaN(y) THEN NaN
              ELSE Norm(x[1] * y[2] - y[1] * x[2], x[2] * y[2])
RMul(x, y) == IF IsNaN(x) \/ IsNaN(y) THEN NaN
              ELSE Norm(x[1] * y[1], x[2] * y[2])
RDiv(x, y) == IF IsNaN(x) \/ IsNaN(y) THEN NaN
              ELSE Norm(x[1] * y[2], x[2] * y[1])
\* comparisons with NaN are False, as in IEEE 754
RLt(x, y) == ~IsNaN(x) /\ ~IsNaN(y) /\ x[1] * y[2] < y[1] * x[2]
RLe(x, y) == ~IsNaN(x) /\ ~IsNaN(y) /\ x[1] * y[2] <= y[1] * x[2]

(***************************************************************************)
(* pandas Series operations used by the engine and the strategies.         *)
(***************************************************************************)
\* a column given row by row, as the array pandas stores
Column(f) == SubSeq(f, 1, Len(f))

\* Series.pct_change()
PctChange(s) ==
    Column([p \in 1..Len(s) |->
        IF p = 1 THEN NaN ELSE Norm(s[p] - s[p - 1], s[p - 1])])

\* Series.shift(1) of an integer column: the first row becomes NaN
Shift1(s) ==
    Column([p \in 1..Len(s) |-> IF p = 1 THEN NaN ELSE Rat(s[p - 1])])

\* Series.diff().fillna(0) of an integer column
DiffFill0(s) ==
    Column([p \in 1..Len(s) |-> IF p = 1 THEN 0 ELSE s[p] - s[p - 1]])

\* skipna=True: a NaN operand leaves the accumulated value as it is
MulSkipNa(x, y) == IF IsNaN(y) THEN x ELSE IF IsNaN(x) THEN y ELSE RMul(x, y)
AddSkipNa(x, y) == IF IsNaN(y) THEN x ELSE IF IsNaN(x) THEN y ELSE RAdd(x, y)
MaxSkipNa(x, y) == IF IsNaN(y) THEN x ELSE IF IsNaN(x) THEN y
                   ELSE IF RLt(x, y) THEN y ELSE x
MinSkipNa(x, y) == IF IsNaN(y) THEN x ELSE IF IsNaN(x) THEN y
                   ELSE IF RLt(y, x) THEN y ELSE x

\* the accumulation step of cumprod / sum / cummax / min
Accumulate(op, x, y) ==
    CASE op = "prod" -> MulSkipNa(x, y)
      [] op = "sum" -> AddSkipNa(x, y)
      [] op = "max" -> MaxSkipNa(x, y)
      [] op = "min" -> MinSkipNa(x, y)

\* prefix folds of rows lo..hi under op, by halving (rows lo..hi exist)
RECURSIVE Scan(_, _, _, _)
Scan(op, s, lo, hi) ==
    IF lo = hi THEN <<s[lo]>>
    ELSE LET mid == (lo + hi) \div 2
             left == Scan(op, s, lo, mid)
             right == Scan(op, s, mid + 1, hi)
             carry == left[Len(left)]
         IN  left \o [k \in 1..Len(right) |-> Accumulate(op, carry, right[k])]

\* Series.cumprod(): NaN rows stay NaN and are skipped by the running product
CumProd(s) ==
    IF s = <<>> THEN <<>>
    ELSE LET acc == Scan("prod", s, 1, Len(s))
         IN  Column([p \in 1..Len(s) |-> IF IsNaN(s[p]) THEN NaN ELSE acc[p]])

\* Series.cummax(): NaN rows stay NaN and are skipped by the running maximum
CumMax(s) ==
    IF s = <<>> THEN <<>>
    ELSE LET acc == Scan("max", s, 1, Len(s))
         IN  Column([p \in 1..Len(s) |-> IF IsNaN(s[p]) THEN NaN ELSE acc[p]])

\* Series.min(): NaN rows are skipped; NaN when nothing is left
SeriesMin(s) ==
    IF s = <<>> THEN NaN ELSE Scan("min", s, 1, Len(s))[Len(s)]

\* Series.sum() over rows lo..hi (positions): NaN rows are skipped
SumRows(s, lo, hi) ==
    IF lo > hi THEN Rat(0)
    ELSE LET t == Scan("sum", s, lo, hi)[hi - lo + 1]
         IN  IF IsNaN(t) THEN Rat(0) ELSE t

\* sum() of a Python list of floats
RECURSIVE ListSum(_)
ListSum(l) == IF l = <<>> THEN Rat(0) ELSE RAdd(l[1], ListSum(Tail(l)))

\* the last k rows of a series
LastRows(s, k) == SubSeq(s, Len(s) - k + 1, Len(s))

\* the sum of rows lo..hi of an integer column, by halving
RECURSIVE IntSumRows(_, _, _)
IntSumRows(s, lo, hi) ==
    IF lo > hi THEN 0
    ELSE IF lo = hi THEN s[lo]
    ELSE LET mid == (lo + hi) \div 2
         IN  IntSumRows(s, lo, mid) + IntSumRows(s, mid + 1, hi)

IntSum(l) == IntSumRows(l, 1, Len(l))

SeqMaxInt(l) == CHOOSE x \in {l[p] : p \in 1..Len(l)} :
                    \A q \in 1..Len(l) : l[q] <= x
SeqMinInt(l) == CHOOSE x \in {l[p] : p \in 1..Len(l)} :
                    \A q \in 1..Len(l) : x <= l[q]

(***************************************************************************)
(* Strategies (src/trader/strategies.py).                                  *)
(***************************************************************************)
\* calculate_sma(prices, period).iloc[-1]: NaN until period rows exist
SmaLast(prices, period) ==
    IF Len(prices) < period THEN NaN
    ELSE Norm(IntSum(LastRows(prices, period)), period)

\* SMAStrategy.analyze with use_rsi_filter=False: the base signal is the result
SMAAnalyze(st, prices) ==
    IF RLt(SmaLast(prices, st.slow_period), SmaLast(prices, st.fast_period))
    THEN LONG ELSE SHORT

\* BreakoutStrategy.generate_signal
BreakoutAnalyze(st, prices) ==
    IF Len(prices) < st.lookback + 2 THEN NEUTRAL
    ELSE LET current_price == prices[Len(prices)]
             channel == LastRows(SubSeq(prices, 1, Len(prices) - 1), st.lookback)
             high_channel == SeqMaxInt(channel)
             low_channel == SeqMinInt(channel)
         IN  IF current_price > high_channel THEN LONG
             ELSE IF current_price < low_channel THEN SHORT
             ELSE NEUTRAL

\* strategy.analyze(window).signal.value
Analyze(st, window) ==
    IF st.kind = "breakout" THEN BreakoutAnalyze(st, window)
    ELSE SMAAnalyze(st, window)

\* get_strategy(name), for the names of StrategyNames
get_strategy(name) ==
    IF name = "breakout"
    THEN [kind |-> "breakout", name |-> "BREAKOUT_30D", lookback |-> 30,
          fast_period |-> 0, slow_period |-> 0]
    ELSE [kind |-> "sma", name |-> "SMA_20/50", lookback |-> 0,
          fast_period |-> 20, slow_period |-> 50]

NoStrategy == [kind |-> "none", name |-> "", lookback |-> 0,
               fast_period |-> 0, slow_period |-> 0]

\* sma.iloc[-2]: the moving average one row before the last
SmaPrev(prices, period) ==
    SmaLast(SubSeq(prices, 1, Len(prices) - 1), period)

\* how SMAStrategy.analyze (use_rsi_filter=False) ends on a frame of any
\* length: prices.iloc[-1] and sma_fast.iloc[-2] raise IndexError when the row
\* is not there; a comparison with a NaN average is False
SMAAnalyzeOutcome(st, prices) ==
    IF Len(prices) < 2
    THEN [strategy |-> st.name, raised |-> "IndexError", signal |-> NEUTRAL,
          confidence |-> NaN]
    ELSE LET fast_current == SmaLast(prices, st.fast_period)
             slow_current == SmaLast(prices, st.slow_period)
             fast_prev == SmaPrev(prices, st.fast_period)
             slow_prev == SmaPrev(prices, st.slow_period)
         IN  [strategy |-> st.name, raised |-> "",
              signal |-> SMAAnalyze(st, prices),
              confidence |->
                  IF RLt(slow_current, fast_current)
                  THEN IF RLe(fast_prev, slow_prev) THEN <<4, 5>> ELSE <<3, 5>>
                  ELSE IF RLe(slow_prev, fast_prev) THEN <<4, 5>> ELSE <<3, 5>>]

\* min(a, b) of two floats
RMin(x, y) == IF RLt(y, x) THEN y ELSE x

\* how BreakoutStrategy.generate_signal ends on a frame of any length
BreakoutOutcome(st, prices) ==
    IF Len(prices) < st.lookback + 2
    THEN [strategy |-> st.name, raised |-> "", signal |-> NEUTRAL,
          confidence |-> Rat(0)]
    ELSE LET current_price == prices[Len(prices)]
             channel == LastRows(SubSeq(prices, 1, Len(prices) - 1), st.lookback)
             high_channel == SeqMaxInt(channel)
             low_channel == SeqMinInt(channel)
         IN  [strategy |-> st.name, raised |-> "",
              signal |-> BreakoutAnalyze(st, prices),
              confidence |->
                  IF current_price > high_channel
                  THEN RMin(RAdd(<<3, 5>>,
                                 Norm((current_price - high_channel) * 10,
                                      high_channel)),
                            <<9, 10>>)
                  ELSE IF current_price < low_channel
                  THEN RMin(RAdd(<<3, 5>>,
                                 Norm((low_channel - current_price) * 10,
                                      low_channel)),
                            <<9, 10>>)
                  ELSE <<3, 10>>]

\* strategy.analyze(df): the TradeSignal, or the exception
AnalyzeOutcome(st, prices) ==
    IF st.kind = "breakout" THEN BreakoutOutcome(st, prices)
    ELSE SMAAnalyzeOutcome(st, prices)

(***************************************************************************)
(* The price feed: what fetch_data may store in self.df.  A series is flat *)
(* at BasePrice except for its last MaxExtra closes, which are arbitrary.  *)
(***************************************************************************)
SeriesLengths == {0} \cup ((Warmup - 1)..(Warmup + MaxExtra))

MakeSeries(n, tail) ==
    Column([p \in 1..n |->
        IF p <= n - Len(tail) THEN BasePrice ELSE tail[p - (n - Len(tail))]])

InputSeries ==
    {MakeSeries(n, tail) :
        n \in SeriesLengths \ {0}, tail \in [1..MaxExtra -> Prices]}
    \cup {<<>>}

(***************************************************************************)
(* Backtester (src/trader/backtest.py).                                    *)
(***************************************************************************)
VARIABLES
    mode,               \* self.mode
    leverage_arg,       \* the leverage argument of __init__
    leverage,           \* self.leverage
    initial_capital,    \* self.initial_capital
    fetched,            \* self.df is not None
    self_df,            \* self.df: the closes of the fetched series
    last_strategy_name, \* self.last_strategy_name
    results_df,         \* self.results_df: <<>> or <<the frame of the last run>>
    trade_points,       \* self.trade_points: the bar indices of the trade log
    pc,                 \* "idle", or where run() stands: "signals"
    strategy,           \* run()'s local strategy
    i,                  \* run()'s loop index
    signals,            \* run()'s local list signals
    trade_returns,      \* run()'s local list trade_returns, as last computed
    outcome,            \* how the last call of run() ended
    result              \* the caller's BacktestResult: <<>> or <<the result>>

backtester_vars ==
    <<mode, leverage_arg, leverage, initial_capital, fetched, self_df,
      last_strategy_name, results_df, trade_points, pc, strategy, i,
      signals, trade_returns, outcome, result>>

\* a strategy called on its own, outside a backtest
VARIABLES
    history,            \* the closes of the frame handed to analyze()
    analysis            \* <<>> or <<how the call of analyze() ended>>

analysis_vars == <<history, analysis>>

\* one crossover strategy object fed a growing frame, bar after bar
VARIABLES
    instance,           \* the strategy object: its periods and self.prev_signal
    feed,               \* the closes of the frame of the latest analyze() call
    emitted             \* the signals analyze() returned, one per call

crossover_vars == <<instance, feed, emitted>>

\* the batch runner (src/run_all_backtests.py)
VARIABLES
    batch_pc,           \* where run_all_backtests stands
    tf,                 \* the position of tf_name in TIMEFRAMES
    asset,              \* the position of asset in ASSETS
    strat,              \* the position of strategy in ALL_STRATEGIES
    bt_candles,         \* len(bt.df) of the Backtester of the asset
    all_results,        \* the list all_results of the timeframe
    csv,                \* the rows of the summary files written so far
    fetch_log,          \* history: the fetches made and how they ended
    attempted,          \* history: the combinations bt.run was called for
    completed,          \* history: the combinations whose bt.run returned
    collected           \* history: the rows appended to all_results

batch_vars == <<batch_pc, tf, asset, strat, bt_candles, all_results, csv,
                fetch_log, attempted, completed, collected>>

\* the timestamp column of self.df, for the runs that follow it
VARIABLES timestamps

ingest_vars == <<timestamps>>

\* the indicator functions of strategies.py called on their own
VARIABLES
    series_in,          \* the prices handed to the function
    period_in,          \* its period
    indicators          \* <<>> or <<the function called and the series it returned>>

indicator_vars == <<series_in, period_in, indicators>>

\* no indicator function is being called on its own
IndicatorIdle ==
    /\ series_in = <<>>
    /\ period_in = 0
    /\ indicators = <<>>

\* the manual replay loops of run_enhanced_backtests.py and
\* run_enhanced_backtests_v2.py
VARIABLES
    replay_loop,            \* which of the two functions is running
    bar,                    \* the bar the loop handles next (the index i)
    replay_capital,         \* capital
    replay_position,        \* position: 1 = long, -1 = short, 0 = flat
    replay_entry_price,     \* entry_price
    replay_trades,          \* trades: type, price and (v2) bar of each entry
    equity_last,            \* equity_curve[-1]
    signal_buffer,          \* v2: the latest signals, for confirmation
    bars_since_last_trade,  \* v2: the cooldown counter
    looking_to_long,        \* v2: a pullback entry for a long is pending
    looking_to_short,       \* v2: a pullback entry for a short is pending
    entry_trigger_price     \* v2: the price the pending entry waits for

replay_vars == <<replay_loop, bar, replay_capital, replay_position,
                 replay_entry_price, replay_trades, equity_last, signal_buffer,
                 bars_since_last_trade, looking_to_long, looking_to_short,
                 entry_trigger_price>>

\* no replay loop is running
ReplayIdle ==
    /\ replay_loop = ""
    /\ bar = 0
    /\ replay_capital = NaN
    /\ replay_position = 0
    /\ replay_entry_price = 0
    /\ replay_trades = <<>>
    /\ equity_last = NaN
    /\ signal_buffer = <<>>
    /\ bars_since_last_trade = 0
    /\ looking_to_long = FALSE
    /\ looking_to_short = FALSE
    /\ entry_trigger_price = NaN

\* get_strategy called on its own, as a lookup
VARIABLES
    requested,          \* the name handed to get_strategy
    resolved            \* <<>> or <<the constructor call of the object returned>>

lookup_vars == <<requested, resolved>>

\* no lookup is going on
LookupIdle ==
    /\ requested = [text |-> "", upper |-> FALSE]
    /\ resolved = <<>>

\* SimpleTrader (src/trader/bot.py)
VARIABLES
    dry_run,            \* self.dry_run
    current_position,   \* self.current_position: <<>> for None, or <<signal>>
    entry_price,        \* self.entry_price: <<>> for None, or <<price>>
    bot_trades,         \* self.trades
    state_file,         \* trader_state.json: <<>> while not written
    history_file,       \* trade_history.json: <<>> while not written
    returned            \* what the latest execute_trade returned, "" before

bot_vars == <<dry_run, current_position, entry_price, bot_trades, state_file,
              history_file, returned>>

\* no SimpleTrader exists
BotIdle ==
    /\ dry_run = TRUE
    /\ current_position = <<>>
    /\ entry_price = <<>>
    /\ bot_trades = <<>>
    /\ state_file = <<>>
    /\ history_file = <<>>
    /\ returned = ""

\* KrakenLeveragedTrader (src/trader/kraken_strategy.py)
VARIABLES
    kraken_dry_run,     \* self.dry_run
    positions,          \* self.positions: per pair, the position or none
    saved_positions,    \* "positions" of kraken_state.json (empty without a file)
    orders,             \* the orders the exchange accepted, in order
    kraken_returned     \* how the latest execute_signal returned, "" before

kraken_vars == <<kraken_dry_run, positions, saved_positions, orders,
                 kraken_returned>>

\* no KrakenLeveragedTrader exists
KrakenIdle ==
    /\ kraken_dry_run = TRUE
    /\ positions = <<>>
    /\ saved_positions = <<>>
    /\ orders = <<>>
    /\ kraken_returned = ""

\* the state outside the Backtester
outside_vars == <<analysis_vars, crossover_vars, batch_vars, ingest_vars, indicator_vars, replay_vars, lookup_vars, bot_vars, kraken_vars>>

vars == <<backtester_vars, outside_vars>>

\* no strategy is being called on its own
AnalysisIdle ==
    /\ history = <<>>
    /\ analysis = <<>>

\* no crossover strategy object exists
CrossoverIdle ==
    /\ instance = [name |-> "", fast_period |-> 0, slow_period |-> 0,
                   cross_confidence |-> NaN, prev_signal |-> 0]
    /\ feed = <<>>
    /\ emitted = <<>>

\* no batch was started
BatchIdle ==
    /\ batch_pc = "off"
    /\ tf = 0
    /\ asset = 0
    /\ strat = 0
    /\ bt_candles = 0
    /\ all_results = <<>>
    /\ csv = {}
    /\ fetch_log = {}
    /\ attempted = {}
    /\ completed = {}
    /\ collected = {}

\* the timestamp column is not followed
IngestIdle == timestamps = <<>>

\* nothing is going on outside the Backtester
OutsideIdle ==
    /\ AnalysisIdle
    /\ CrossoverIdle
    /\ BatchIdle
    /\ IngestIdle
    /\ IndicatorIdle
    /\ ReplayIdle
    /\ LookupIdle
    /\ BotIdle
    /\ KrakenIdle

\* a constructor that keeps the leverage argument in every mode
InitLeverageAnyMode(m, l) == l

\* Backtester.__init__: leverage only applies in leveraged mode
InitLeverage(m, l) == IF m = "leveraged" THEN l ELSE 1

Init ==
    /\ mode \in Modes
    /\ leverage_arg \in Leverages
    /\ leverage = InitLeverage(mode, leverage_arg)
    /\ initial_capital = DefaultCapital
    /\ fetched = FALSE
    /\ self_df = <<>>
    /\ last_strategy_name = ""
    /\ results_df = <<>>
    /\ trade_points = <<>>
    /\ pc = "idle"
    /\ strategy = NoStrategy
    /\ i = 0
    /\ signals = <<>>
    /\ trade_returns = <<>>
    /\ outcome = "none"
    /\ result = <<>>
    /\ OutsideIdle

\* fetch_data: self.df = the series the price feed returned
FetchData ==
    /\ pc = "idle"
    /\ ~fetched
    /\ \E series \in InputSeries : self_df' = series
    /\ fetched' = TRUE
    /\ UNCHANGED <<mode, leverage_arg, leverage, initial_capital,
                   last_strategy_name, results_df, trade_points, pc, strategy,
                   i, signals, trade_returns, outcome, result>>
    /\ UNCHANGED outside_vars

\* run(): "if self.df is None or len(self.df) < 60: raise ValueError"
InsufficientData(have, df) == ~have \/ Len(df) < Warmup

\* run(), up to the signal loop
RunStart(strategy_name) ==
    /\ pc = "idle"
    /\ IF InsufficientData(fetched, self_df)
       THEN /\ outcome' = "raised"
            /\ UNCHANGED <<pc, strategy, i, signals, last_strategy_name>>
       ELSE /\ strategy' = get_strategy(strategy_name)
            /\ last_strategy_name' = get_strategy(strategy_name).name
            /\ i' = Warmup
            /\ signals' = <<>>
            /\ pc' = "signals"
            /\ outcome' = "running"
    /\ UNCHANGED <<mode, leverage_arg, leverage, initial_capital, fetched,
                   self_df, results_df, trade_points, trade_returns, result>>
    /\ UNCHANGED outside_vars

\* the window of a loop that hands the strategy the whole frame
WindowWholeFrame(df, idx) == df

\* window = df.iloc[:i+1].copy(): bars 0..idx
Window(df, idx) == SubSeq(df, 1, idx + 1)

\* a run that records the strategy's signal as it is, whatever the mode
CoerceNothing(m, sig_value) == sig_value

\* Long Only mode: convert SHORT (-1) to NEUTRAL (0)
Coerce(m, sig_value) ==
    IF m = "long_only" /\ sig_value = -1 THEN 0 ELSE sig_value

\* one iteration of "for i in range(60, len(df))"
AnalyzeBar ==
    /\ pc = "signals"
    /\ i < Len(self_df)
    /\ signals' = Append(signals,
                         Coerce(mode, Analyze(strategy, Window(self_df, i))))
    /\ i' = i + 1
    /\ UNCHANGED <<mode, leverage_arg, leverage, initial_capital, fetched,
                   self_df, last_strategy_name, results_df, trade_points, pc,
                   strategy, trade_returns, outcome, result>>
    /\ UNCHANGED outside_vars

\* a padding that carries the last signal of the run before over the warm-up
PadSignalsCarriedOver(sigs) ==
    Column([p \in 1..(Warmup + Len(sigs)) |->
        IF p <= Warmup
        THEN IF results_df = <<>> THEN NEUTRAL
             ELSE results_df[1].signal[Len(results_df[1].signal)]
        ELSE sigs[p - Warmup]])

\* a padding that holds a position through the warm-up: [1] * 60 + signals
PadSignalsLong(sigs) ==
    Column([p \in 1..(Warmup + Len(sigs)) |->
        IF p <= Warmup THEN LONG ELSE sigs[p - Warmup]])

\* signals = [0] * 60 + signals
PadSignals(sigs) ==
    Column([p \in 1..(Warmup + Len(sigs)) |->
        IF p <= Warmup THEN NEUTRAL ELSE sigs[p - Warmup]])

\* df['trade'] = df['signal'].diff().fillna(0)
TradeColumn(signal) == DiffFill0(signal)

\* strategy returns taken with the signal of the bar itself (no shift)
StrategyReturnsSameBar(signal, returns, lev) ==
    Column([p \in 1..Len(signal) |->
        RMul(RMul(Rat(signal[p]), returns[p]), Rat(lev))])

\* strategy returns taken with the signal of the next bar (shift(-1))
StrategyReturnsNextBar(signal, returns, lev) ==
    Column([p \in 1..Len(signal) |->
        RMul(RMul(IF p = Len(signal) THEN NaN ELSE Rat(signal[p + 1]),
                  returns[p]), Rat(lev))])

\* df['strategy_returns'] = df['signal'].shift(1) * df['returns'] * self.leverage
StrategyReturns(signal, returns, lev) ==
    LET shifted == Shift1(signal)
    IN  Column([p \in 1..Len(signal) |->
            RMul(RMul(shifted[p], returns[p]), Rat(lev))])

\* cumulative returns that add up instead of compounding: 1 + column.cumsum()
CumReturnsAdditive(returns) ==
    IF returns = <<>> THEN <<>>
    ELSE LET acc == Scan("sum", returns, 1, Len(returns))
         IN  Column([p \in 1..Len(returns) |->
                 IF IsNaN(returns[p]) THEN NaN ELSE RAdd(Rat(1), acc[p])])

\* (1 + column).cumprod()
CumReturns(returns) ==
    CumProd(Column([p \in 1..Len(returns) |-> RAdd(Rat(1), returns[p])]))

\* self.initial_capital * column
ValueColumn(capital, cum) ==
    Column([p \in 1..Len(cum) |-> RMul(Rat(capital), cum[p])])

\* a frame whose benchmark follows the position and the leverage of the run
FrameHoldFollowsRun(closes, sigs, lev, capital) ==
    LET signal == PadSignals(sigs)
        returns == PctChange(closes)
        strategy_returns == StrategyReturns(signal, returns, lev)
        cum_strategy == CumReturns(strategy_returns)
    IN  [close |-> closes,
         signal |-> signal,
         trade |-> TradeColumn(signal),
         returns |-> returns,
         strategy_returns |-> strategy_returns,
         portfolio_value |-> ValueColumn(capital, cum_strategy),
         hold_value |-> ValueColumn(capital, cum_strategy)]

\* the frame df of run(), lines 146-163
Frame(closes, sigs, lev, capital) ==
    LET signal == PadSignals(sigs)
        returns == PctChange(closes)
        strategy_returns == StrategyReturns(signal, returns, lev)
        cum_returns == CumReturns(returns)
        cum_strategy == CumReturns(strategy_returns)
    IN  [close |-> closes,
         signal |-> signal,
         trade |-> TradeColumn(signal),
         returns |-> returns,
         strategy_returns |-> strategy_returns,
         portfolio_value |-> ValueColumn(capital, cum_strategy),
         hold_value |-> ValueColumn(capital, cum_returns)]

\* a trade log of the entries only: df[df['trade'] > 0]
TradePointsBuysOnly(trade) ==
    SelectSeq([p \in 1..Len(trade) |-> p - 1], LAMBDA b : trade[b + 1] > 0)

\* trade_points = df[df['trade'] != 0]: its index, as bar indices
TradePoints(trade) ==
    SelectSeq([p \in 1..Len(trade) |-> p - 1], LAMBDA b : trade[b + 1] # 0)

\* period_return = df.loc[start_idx:end_idx, 'strategy_returns'].sum()
PeriodReturn(strategy_returns, start_idx, end_idx) ==
    SumRows(strategy_returns, start_idx + 1, end_idx + 1)

\* the loop "for i in range(1, len(trade_points))" filling trade_returns
TradeReturns(points, strategy_returns) ==
    Column([k \in 1..(Len(points) - 1) |->
        PeriodReturn(strategy_returns, points[k], points[k + 1])])

\* a drawdown measured against the maximum of the whole curve
DrawdownFromGlobalMax(portfolio_value) ==
    LET top == Scan("max", portfolio_value, 1, Len(portfolio_value))
                   [Len(portfolio_value)]
    IN  Column([p \in 1..Len(portfolio_value) |->
            RMul(RDiv(RSub(portfolio_value[p], top), top), Rat(100))])

\* drawdown = (portfolio_value - rolling_max) / rolling_max * 100
Drawdown(portfolio_value) ==
    LET rolling_max == CumMax(portfolio_value)
    IN  Column([p \in 1..Len(portfolio_value) |->
            RMul(RDiv(RSub(portfolio_value[p], rolling_max[p]), rolling_max[p]),
                 Rat(100))])

\* max_drawdown = drawdown.min()
MaxDrawdown(portfolio_value) == SeriesMin(Drawdown(portfolio_value))

Positive(l) == SelectSeq(l, LAMBDA r : RLt(Rat(0), r))
Negative(l) == SelectSeq(l, LAMBDA r : RLt(r, Rat(0)))

\* the finite stand-in for float('inf') in the BacktestResult: 99.99
ProfitFactorSentinel == <<9999, 100>>

\* a profit factor that divides by the gross loss whatever it is
ProfitFactorUnguarded(returns_list) ==
    LET gross_profit == ListSum(Positive(returns_list))
        gross_loss == LET t == ListSum(Negative(returns_list))
                      IN  <<Abs(t[1]), t[2]>>
    IN  RDiv(gross_profit, gross_loss)

\* profit_factor, as stored in the BacktestResult
ProfitFactor(returns_list) ==
    LET gross_profit == ListSum(Positive(returns_list))
        gross_loss == LET t == ListSum(Negative(returns_list))
                      IN  <<Abs(t[1]), t[2]>>
    IN  IF RLt(Rat(0), gross_loss) THEN RDiv(gross_profit, gross_loss)
        ELSE ProfitFactorSentinel

\* Series.dropna()
DropNa(s) == SelectSeq(s, LAMBDA x : ~IsNaN(x))

\* Series.mean() of a series without NaN: NaN when it is empty
Mean(s) == IF s = <<>> THEN NaN ELSE RDiv(SumRows(s, 1, Len(s)), Rat(Len(s)))

\* the square of Series.std() (ddof=1) of a series without NaN: NaN when it
\* has fewer than two rows
Variance(s) ==
    IF Len(s) < 2 THEN NaN
    ELSE LET n == Len(s)
             total == SumRows(s, 1, n)
             squares == SumRows(Column([p \in 1..n |-> RMul(s[p], s[p])]), 1, n)
         IN  RDiv(RSub(RMul(Rat(n), squares), RMul(total, total)),
                  Rat(n * (n - 1)))

\* mean / std as the number mean * |mean| / std^2, which has the sign of the
\* quotient and is 0, NaN or infinite exactly when the quotient is; a division
\* by a zero std gives NaN (0 / 0) or an infinity, both written NaN here
SignedSquareRatio(mean, variance) ==
    IF IsNaN(mean) \/ IsNaN(variance) \/ variance[1] = 0 THEN NaN
    ELSE RDiv(<<mean[1] * Abs(mean[1]), mean[2] * mean[2]>>, variance)

\* the Sharpe ratio of a run that divides by std whatever it is
SharpeUnguarded(strategy_returns) ==
    LET hourly_returns == DropNa(strategy_returns)
    IN  SignedSquareRatio(Mean(hourly_returns), Variance(hourly_returns))

\* sharpe, lines 193-198, kept as sharpe * |sharpe| / (24 * 365): the factor
\* np.sqrt(24 * 365) is the same positive number in every run
Sharpe(strategy_returns) ==
    LET hourly_returns == DropNa(strategy_returns)
        variance == Variance(hourly_returns)
    IN  IF Len(hourly_returns) > 0 /\ RLt(Rat(0), variance)
        THEN SignedSquareRatio(Mean(hourly_returns), variance)
        ELSE Rat(0)

\* ((value / self.initial_capital) - 1) * 100
ReturnPct(value, capital) ==
    RMul(RSub(RDiv(value, Rat(capital)), Rat(1)), Rat(100))

\* the BacktestResult of run(), lines 165-229
Metrics(st, frame, points, returns_list, capital) ==
    LET n == Len(frame.close)
        final_value == frame.portfolio_value[n]
        hold_final == frame.hold_value[n]
        total_return == ReturnPct(final_value, capital)
        hold_return == ReturnPct(hold_final, capital)
        winning == Len(Positive(returns_list))
        losing == Len(Negative(returns_list))
    IN  [strategy_name |-> st.name,
         initial_capital |-> capital,
         final_value |-> final_value,
         total_return_pct |-> total_return,
         buy_hold_return_pct |-> hold_return,
         outperformance_pct |-> RSub(total_return, hold_return),
         total_trades |-> Len(points),
         winning_trades |-> winning,
         losing_trades |-> losing,
         win_rate_pct |-> IF returns_list # <<>>
                          THEN Norm(winning * 100, Len(returns_list))
                          ELSE Rat(0),
         max_drawdown_pct |-> MaxDrawdown(frame.portfolio_value),
         sharpe_ratio |-> Sharpe(frame.strategy_returns),
         profit_factor |-> ProfitFactor(returns_list),
         avg_trade_return_pct |->
             IF returns_list # <<>>
             THEN RMul(RDiv(ListSum(returns_list), Rat(Len(returns_list))),
                       Rat(100))
             ELSE Rat(0)]

\* run(), from the end of the signal loop to its return
Finish ==
    /\ pc = "signals"
    /\ i >= Len(self_df)
    /\ \E frame \in {Frame(self_df, signals, leverage, initial_capital)} :
       LET points == TradePoints(frame.trade)
           returns_list == TradeReturns(points, frame.strategy_returns)
       IN  /\ results_df' = <<frame>>
           /\ trade_points' = points
           /\ trade_returns' = returns_list
           /\ result' = <<Metrics(strategy, frame, points, returns_list,
                                  initial_capital)>>
    /\ pc' = "idle"
    /\ outcome' = "returned"
    /\ strategy' = NoStrategy
    /\ i' = 0
    /\ signals' = <<>>
    /\ UNCHANGED <<mode, leverage_arg, leverage, initial_capital, fetched,
                   self_df, last_strategy_name>>
    /\ UNCHANGED outside_vars

Next ==
    \/ FetchData
    \/ \E strategy_name \in StrategyNames : RunStart(strategy_name)
    \/ AnalyzeBar
    \/ Finish

Spec == Init /\ [][Next]_vars

(***************************************************************************)
(* The Backtester fed with a frame whose timestamps are followed: the      *)
(* index ticker.history() returned becomes the timestamp column as it is,  *)
(* ascending or not.                                                       *)
(***************************************************************************)
\* the closes of the frames fed here
FrameCloses == {series \in InputSeries : Len(series) = Warmup + 1}

\* hourly timestamps in ascending order
Ascending(n) == Column([p \in 1..n |-> p])

\* the indexes fed: ascending, with a gap, with the last timestamp repeating
\* the one before, and with the last two timestamps exchanged
FrameIndexes(n) ==
    {Ascending(n),
     [Ascending(n) EXCEPT ![n] = n + 1],
     [Ascending(n) EXCEPT ![n] = n - 1],
     [Ascending(n) EXCEPT ![n - 1] = n, ![n] = n - 1]}

\* fetch_data: df.reset_index() turns the index into a column, which is
\* renamed to 'timestamp'; nothing is sorted, dropped or checked
FetchFrame ==
    /\ pc = "idle"
    /\ ~fetched
    /\ \E series \in FrameCloses :
          /\ self_df' = series
          /\ \E index \in FrameIndexes(Len(series)) : timestamps' = index
    /\ fetched' = TRUE
    /\ UNCHANGED <<mode, leverage_arg, leverage, initial_capital,
                   last_strategy_name, results_df, trade_points, pc, strategy,
                   i, signals, trade_returns, outcome, result>>
    /\ UNCHANGED <<analysis_vars, crossover_vars, batch_vars,
                   indicator_vars,
                   replay_vars,
                   lookup_vars,
                   bot_vars,
                   kraken_vars>>

IngestNext ==
    \/ FetchFrame
    \/ \E strategy_name \in StrategyNames : RunStart(strategy_name)
    \/ AnalyzeBar
    \/ Finish

IngestSpec == Init /\ [][IngestNext]_vars

(***************************************************************************)
(* The trade statistics of run() (lines 200-203 and 227) on their own: the *)
(* list trade_returns is any list of at most MaxTrades per-trade returns,  *)
(* as longer series than those of the price feed above produce.            *)
(***************************************************************************)
TradeReturnValues == {<<-1, 2>>, <<-1, 3>>, <<0, 1>>, <<1, 3>>, <<2, 3>>}

TradeReturnLists ==
    UNION {[1..n -> TradeReturnValues] : n \in 0..MaxTrades}

ProfitFactorInit ==
    /\ mode \in Modes
    /\ leverage_arg \in Leverages
    /\ leverage = InitLeverage(mode, leverage_arg)
    /\ initial_capital = DefaultCapital
    /\ fetched = TRUE
    /\ self_df = <<>>
    /\ last_strategy_name = ""
    /\ results_df = <<>>
    /\ trade_points = <<>>
    /\ pc = "profit_factor"
    /\ strategy = NoStrategy
    /\ i = 0
    /\ signals = <<>>
    /\ trade_returns \in TradeReturnLists
    /\ outcome = "running"
    /\ result = <<>>
    /\ OutsideIdle

\* lines 200-203 and 227: the profit factor handed to the BacktestResult
ComputeProfitFactor ==
    /\ pc = "profit_factor"
    /\ result' = <<[profit_factor |-> ProfitFactor(trade_returns)]>>
    /\ pc' = "idle"
    /\ outcome' = "returned"
    /\ UNCHANGED <<mode, leverage_arg, leverage, initial_capital, fetched,
                   self_df, last_strategy_name, results_df, trade_points,
                   strategy, i, signals, trade_returns>>
    /\ UNCHANGED outside_vars

ProfitFactorNext == ComputeProfitFactor

ProfitFactorSpec == ProfitFactorInit /\ [][ProfitFactorNext]_vars

(***************************************************************************)
(* A strategy of get_strategy called on its own, on a frame of any length: *)
(* flat at BasePrice except for its last HistoryTail closes.               *)
(***************************************************************************)
HistoryLengths == {0, 1, 2, 20, 31, 32, 49, 50, 51}

Histories ==
    {MakeSeries(n, tail) :
        n \in {m \in HistoryLengths : m >= HistoryTail},
        tail \in [1..HistoryTail -> Prices]}
    \cup UNION {[1..n -> Prices] : n \in {m \in HistoryLengths : m < HistoryTail}}

\* a Backtester that was built and never used
BacktesterIdle ==
    /\ mode = "long_only"
    /\ leverage_arg = 1
    /\ leverage = InitLeverage(mode, leverage_arg)
    /\ initial_capital = DefaultCapital
    /\ fetched = FALSE
    /\ self_df = <<>>
    /\ last_strategy_name = ""
    /\ results_df = <<>>
    /\ trade_points = <<>>
    /\ pc = "idle"
    /\ strategy = NoStrategy
    /\ i = 0
    /\ signals = <<>>
    /\ trade_returns = <<>>
    /\ outcome = "none"
    /\ result = <<>>

AnalysisInit ==
    /\ BacktesterIdle
    /\ CrossoverIdle
    /\ BatchIdle
    /\ IngestIdle
    /\ IndicatorIdle
    /\ ReplayIdle
    /\ LookupIdle
    /\ BotIdle
    /\ KrakenIdle
    /\ history \in Histories
    /\ analysis = <<>>

\* get_strategy(strategy_name).analyze(df)
CallAnalyze(strategy_name) ==
    /\ analysis = <<>>
    /\ analysis' = <<AnalyzeOutcome(get_strategy(strategy_name), history)>>
    /\ UNCHANGED history
    /\ UNCHANGED <<backtester_vars, crossover_vars, batch_vars, ingest_vars,
                   indicator_vars,
                   replay_vars,
                   lookup_vars,
                   bot_vars,
                   kraken_vars>>

AnalysisNext == \E strategy_name \in StrategyNames : CallAnalyze(strategy_name)

AnalysisSpec == AnalysisInit /\ [][AnalysisNext]_vars

(***************************************************************************)
(* The crossover strategies (src/trader/crossover_strategies.py): one      *)
(* object, called once per bar on a frame that grows by one close per      *)
(* call.  The frame starts flat at BasePrice with slow_period bars, so     *)
(* that the first call still lacks history.                                *)
(***************************************************************************)
\* SMA2050CrossoverStrategy() and SMA50200TrendStrategy() after __init__
CrossoverStrategies ==
    {[name |-> "SMA_20_50_CROSS_3X", fast_period |-> 20, slow_period |-> 50,
      cross_confidence |-> <<17, 20>>, prev_signal |-> NEUTRAL],
     [name |-> "SMA_50_200_TREND_3X", fast_period |-> 50, slow_period |-> 200,
      cross_confidence |-> <<9, 10>>, prev_signal |-> NEUTRAL]}

\* fast_prev <= slow_prev and fast > slow
BullishCross(st, prices) ==
    /\ RLe(SmaPrev(prices, st.fast_period), SmaPrev(prices, st.slow_period))
    /\ RLt(SmaLast(prices, st.slow_period), SmaLast(prices, st.fast_period))

\* fast_prev >= slow_prev and fast < slow
BearishCross(st, prices) ==
    /\ RLe(SmaPrev(prices, st.slow_period), SmaPrev(prices, st.fast_period))
    /\ RLt(SmaLast(prices, st.fast_period), SmaLast(prices, st.slow_period))

\* an analyze() that forgets the position between crossovers
CrossoverAnalyzeNoHold(st, prices) ==
    IF Len(prices) < st.slow_period + 2
    THEN [signal |-> NEUTRAL, confidence |-> Rat(0), prev_signal |-> st.prev_signal]
    ELSE IF BullishCross(st, prices)
    THEN [signal |-> LONG, confidence |-> st.cross_confidence, prev_signal |-> LONG]
    ELSE IF BearishCross(st, prices)
    THEN [signal |-> SHORT, confidence |-> st.cross_confidence, prev_signal |-> SHORT]
    ELSE [signal |-> NEUTRAL, confidence |-> <<3, 5>>, prev_signal |-> NEUTRAL]

\* SMA2050CrossoverStrategy.analyze / SMA50200TrendStrategy.analyze: the
\* TradeSignal's signal and confidence, and self.prev_signal afterwards
CrossoverAnalyze(st, prices) ==
    IF Len(prices) < st.slow_period + 2
    THEN [signal |-> NEUTRAL, confidence |-> Rat(0), prev_signal |-> st.prev_signal]
    ELSE IF BullishCross(st, prices)
    THEN [signal |-> LONG, confidence |-> st.cross_confidence, prev_signal |-> LONG]
    ELSE IF BearishCross(st, prices)
    THEN [signal |-> SHORT, confidence |-> st.cross_confidence, prev_signal |-> SHORT]
    ELSE [signal |-> st.prev_signal, confidence |-> <<3, 5>>,
          prev_signal |-> st.prev_signal]

CrossoverInit ==
    /\ BacktesterIdle
    /\ AnalysisIdle
    /\ BatchIdle
    /\ IngestIdle
    /\ IndicatorIdle
    /\ ReplayIdle
    /\ LookupIdle
    /\ BotIdle
    /\ KrakenIdle
    /\ instance \in CrossoverStrategies
    /\ feed = MakeSeries(instance.slow_period, <<>>)
    /\ emitted = <<>>

\* the next bar arrives and the caller asks the object for its signal
CallCrossover ==
    /\ Len(emitted) < MaxCalls
    /\ \E close \in Prices :
         \E out \in {CrossoverAnalyze(instance, Append(feed, close))} :
            /\ feed' = Append(feed, close)
            /\ emitted' = Append(emitted, out.signal)
            /\ instance' = [instance EXCEPT !.prev_signal = out.prev_signal]
    /\ UNCHANGED <<backtester_vars, analysis_vars, batch_vars, ingest_vars,
                   indicator_vars,
                   replay_vars,
                   lookup_vars,
                   bot_vars,
                   kraken_vars>>

CrossoverNext == CallCrossover

CrossoverSpec == CrossoverInit /\ [][CrossoverNext]_vars

(***************************************************************************)
(* run_all_backtests (src/run_all_backtests.py): for every timeframe, for  *)
(* every asset a Backtester is built and fed, and every strategy is run on *)
(* it; the rows collected for a timeframe are written to its summary file  *)
(* once its assets are done.  A fetch returns a frame of some length or    *)
(* raises; bt.run raises on insufficient data and may raise otherwise, and *)
(* so may bt.plot.  The process can be stopped at any point.               *)
(***************************************************************************)
BatchTimeframes == <<"1mo", "6mo">>
BatchAssets == <<"BTC", "ETH">>
BatchStrategies == <<"sma", "breakout">>

\* len(bt.df) after fetch_data: an empty frame, a short one, a sufficient one
CandleCounts == {0, Warmup - 1, Warmup + 1}

BatchInit ==
    /\ BacktesterIdle
    /\ AnalysisIdle
    /\ CrossoverIdle
    /\ IngestIdle
    /\ IndicatorIdle
    /\ ReplayIdle
    /\ LookupIdle
    /\ BotIdle
    /\ KrakenIdle
    /\ batch_pc = "asset"
    /\ tf = 1
    /\ asset = 1
    /\ strat = 1
    /\ bt_candles = 0
    /\ all_results = <<>>
    /\ csv = {}
    /\ fetch_log = {}
    /\ attempted = {}
    /\ completed = {}
    /\ collected = {}

\* the row appended to all_results for the combination in hand
ResultRow ==
    [timeframe |-> BatchTimeframes[tf], asset |-> BatchAssets[asset],
     strategy |-> BatchStrategies[strat], candles |-> bt_candles]

\* the combination in hand
Combination == <<BatchTimeframes[tf], BatchAssets[asset], BatchStrategies[strat]>>

\* a handler that is missing: the error of a strategy reaches the except
\* clause of the asset, and the strategy loop is left
RunErrorSkipsAsset(s) == Len(BatchStrategies) + 1

\* "except Exception as e: print(...)" inside the strategy loop: the loop goes
\* on with the next strategy
RunErrorResumesAt(s) == s + 1

\* the strategy loop proceeds at position s; past its end, the asset loop moves on
ProceedAt(s) ==
    IF s <= Len(BatchStrategies)
    THEN /\ strat' = s
         /\ batch_pc' = "strategy"
         /\ asset' = asset
    ELSE /\ strat' = 1
         /\ batch_pc' = "asset"
         /\ asset' = asset + 1

\* lines 62-68: the next asset; Backtester(...) and bt.fetch_data(days)
StartAsset ==
    /\ batch_pc = "asset"
    /\ asset <= Len(BatchAssets)
    /\ \/ \* the fetch raises: "Failed to fetch", on to the next asset
          /\ fetch_log' = fetch_log \cup
                 {[timeframe |-> BatchTimeframes[tf], asset |-> BatchAssets[asset],
                   ok |-> FALSE]}
          /\ asset' = asset + 1
          /\ UNCHANGED <<batch_pc, strat, bt_candles>>
       \/ \* the fetch returns a frame
          /\ \E n \in CandleCounts : bt_candles' = n
          /\ fetch_log' = fetch_log \cup
                 {[timeframe |-> BatchTimeframes[tf], asset |-> BatchAssets[asset],
                   ok |-> TRUE]}
          /\ strat' = 1
          /\ batch_pc' = "strategy"
          /\ UNCHANGED asset
    /\ UNCHANGED <<tf, all_results, csv, attempted, completed, collected>>
    /\ UNCHANGED <<backtester_vars, analysis_vars, crossover_vars, ingest_vars,
                   indicator_vars,
                   replay_vars,
                   lookup_vars,
                   bot_vars,
                   kraken_vars>>

\* line 72: result = bt.run(strategy)
RunStrategy ==
    /\ batch_pc = "strategy"
    /\ attempted' = attempted \cup {Combination}
    /\ \/ \* bt.run raises: insufficient data, or an error of the strategy
          /\ ProceedAt(RunErrorResumesAt(strat))
          /\ UNCHANGED completed
       \/ \* bt.run returns
          /\ ~InsufficientData(TRUE, MakeSeries(bt_candles, <<>>))
          /\ completed' = completed \cup {Combination}
          /\ batch_pc' = "collect"
          /\ UNCHANGED <<asset, strat>>
    /\ UNCHANGED <<tf, bt_candles, all_results, csv, fetch_log, collected>>
    /\ UNCHANGED <<backtester_vars, analysis_vars, crossover_vars, ingest_vars,
                   indicator_vars,
                   replay_vars,
                   lookup_vars,
                   bot_vars,
                   kraken_vars>>

\* lines 74-101: bt.plot(...) and all_results.append({...})
CollectResult ==
    /\ batch_pc = "collect"
    /\ \/ \* bt.plot raises: nothing is appended
          /\ ProceedAt(RunErrorResumesAt(strat))
          /\ UNCHANGED <<all_results, collected>>
       \/ /\ all_results' = Append(all_results, ResultRow)
          /\ collected' = collected \cup {ResultRow}
          /\ ProceedAt(strat + 1)
    /\ UNCHANGED <<tf, bt_candles, csv, fetch_log, attempted, completed>>
    /\ UNCHANGED <<backtester_vars, analysis_vars, crossover_vars, ingest_vars,
                   indicator_vars,
                   replay_vars,
                   lookup_vars,
                   bot_vars,
                   kraken_vars>>

\* lines 109-120, after the asset loop: the summary of the timeframe is
\* written if there is any row, and the next timeframe begins
SaveSummary ==
    /\ batch_pc = "asset"
    /\ asset > Len(BatchAssets)
    /\ csv' = IF all_results # <<>>
              THEN csv \cup {all_results[k] : k \in 1..Len(all_results)}
              ELSE csv
    /\ all_results' = <<>>
    /\ IF tf < Len(BatchTimeframes)
       THEN /\ tf' = tf + 1
            /\ asset' = 1
            /\ UNCHANGED batch_pc
       ELSE /\ batch_pc' = "done"
            /\ UNCHANGED <<tf, asset>>
    /\ UNCHANGED <<strat, bt_candles, fetch_log, attempted, completed, collected>>
    /\ UNCHANGED <<backtester_vars, analysis_vars, crossover_vars, ingest_vars,
                   indicator_vars,
                   replay_vars,
                   lookup_vars,
                   bot_vars,
                   kraken_vars>>

\* the process is stopped (KeyboardInterrupt is not an Exception, so no
\* except clause of the batch catches it): what is in memory is gone
StopBatch ==
    /\ batch_pc \in {"asset", "strategy", "collect"}
    /\ batch_pc' = "stopped"
    /\ all_results' = <<>>
    /\ UNCHANGED <<tf, asset, strat, bt_candles, csv, fetch_log, attempted,
                   completed, collected>>
    /\ UNCHANGED <<backtester_vars, analysis_vars, crossover_vars, ingest_vars,
                   indicator_vars,
                   replay_vars,
                   lookup_vars,
                   bot_vars,
                   kraken_vars>>

BatchNext ==
    \/ StartAsset
    \/ RunStrategy
    \/ CollectResult
    \/ SaveSummary
    \/ StopBatch

BatchSpec == BatchInit /\ [][BatchNext]_vars

(***************************************************************************)
(* The indicator functions (src/trader/strategies.py, lines 26-42), each a *)
(* function of a price series and a period.                                *)
(***************************************************************************)
MaxSeriesLen == 4
MaxPeriod == 3

\* what float division gives where the exact quotient does not exist:
\* x / 0 is inf with the sign of x, and 0 / 0 is NaN
Inf == <<1, 0>>
FloatDiv(x, y) ==
    IF IsNaN(x) \/ IsNaN(y) THEN NaN
    ELSE IF y[1] = 0
         THEN (IF x[1] = 0 THEN NaN ELSE IF x[1] > 0 THEN Inf ELSE <<-1, 0>>)
         ELSE RDiv(x, y)

\* Series.rolling(window=period).mean() of a column without NaN: NaN until
\* `period` rows exist
RollingMean(s, period) ==
    Column([p \in 1..Len(s) |->
        IF p < period THEN NaN
        ELSE RDiv(SumRows(s, p - period + 1, p), Rat(period))])

\* calculate_sma: prices.rolling(window=period).mean()
calculate_sma(s, period) ==
    RollingMean(Column([p \in 1..Len(s) |-> Rat(s[p])]), period)

\* Series.ewm(span=period, adjust=False).mean(), row p: y1 = x1 and
\* y = (1 - alpha) * y_before + alpha * x with alpha = 2 / (span + 1); there
\* is no min_periods, so every row has a value
RECURSIVE EwmMean(_, _, _)
EwmMean(s, period, p) ==
    IF p = 1 THEN Rat(s[1])
    ELSE LET alpha == Norm(2, period + 1)
         IN  RAdd(RMul(RSub(Rat(1), alpha), EwmMean(s, period, p - 1)),
                  RMul(alpha, Rat(s[p])))

\* calculate_ema: prices.ewm(span=period, adjust=False).mean()
calculate_ema(s, period) ==
    Column([p \in 1..Len(s) |-> EwmMean(s, period, p)])

\* prices.diff(): the first row is NaN
Diff(s) ==
    Column([p \in 1..Len(s) |-> IF p = 1 THEN NaN ELSE Rat(s[p] - s[p - 1])])

\* delta.where(delta > 0, 0): a row for which the comparison is False, the
\* NaN row included, becomes 0
Gains(delta) ==
    Column([p \in 1..Len(delta) |->
        IF RLt(Rat(0), delta[p]) THEN delta[p] ELSE Rat(0)])

\* -delta.where(delta < 0, 0)
Losses(delta) ==
    Column([p \in 1..Len(delta) |->
        IF RLt(delta[p], Rat(0)) THEN RSub(Rat(0), delta[p]) ELSE Rat(0)])

\* 100 - (100 / (1 + rs)): with rs = inf the quotient is 0
RsiOf(rs) ==
    IF rs = Inf THEN Rat(100)
    ELSE IF IsNaN(rs) THEN NaN
    ELSE RSub(Rat(100), RDiv(Rat(100), RAdd(Rat(1), rs)))

\* calculate_rsi with the division of the code, gain / loss, whatever the loss
calculate_rsi(s, period) ==
    LET delta == Diff(s)
        gain == RollingMean(Gains(delta), period)
        loss == RollingMean(Losses(delta), period)
    IN  Column([p \in 1..Len(s) |-> RsiOf(FloatDiv(gain[p], loss[p]))])

IndicatorInit ==
    /\ BacktesterIdle
    /\ AnalysisIdle
    /\ CrossoverIdle
    /\ BatchIdle
    /\ IngestIdle
    /\ ReplayIdle
    /\ LookupIdle
    /\ BotIdle
    /\ KrakenIdle
    /\ series_in \in UNION {[1..n -> Prices] : n \in 0..MaxSeriesLen}
    /\ period_in \in 1..MaxPeriod
    /\ indicators = <<>>

CallSma ==
    /\ indicators = <<>>
    /\ indicators' = <<[fn |-> "calculate_sma",
                        values |-> calculate_sma(series_in, period_in)]>>
    /\ UNCHANGED <<series_in, period_in>>
    /\ UNCHANGED <<backtester_vars, analysis_vars, crossover_vars, batch_vars,
                   ingest_vars,
                   replay_vars,
                   lookup_vars,
                   bot_vars,
                   kraken_vars>>

CallEma ==
    /\ indicators = <<>>
    /\ indicators' = <<[fn |-> "calculate_ema",
                        values |-> calculate_ema(series_in, period_in)]>>
    /\ UNCHANGED <<series_in, period_in>>
    /\ UNCHANGED <<backtester_vars, analysis_vars, crossover_vars, batch_vars,
                   ingest_vars,
                   replay_vars,
                   lookup_vars,
                   bot_vars,
                   kraken_vars>>

CallRsi ==
    /\ indicators = <<>>
    /\ indicators' = <<[fn |-> "calculate_rsi",
                        values |-> calculate_rsi(series_in, period_in)]>>
    /\ UNCHANGED <<series_in, period_in>>
    /\ UNCHANGED <<backtester_vars, analysis_vars, crossover_vars, batch_vars,
                   ingest_vars,
                   replay_vars,
                   lookup_vars,
                   bot_vars,
                   kraken_vars>>

IndicatorNext ==
    \/ CallSma
    \/ CallEma
    \/ CallRsi

IndicatorSpec == IndicatorInit /\ [][IndicatorNext]_vars

(***************************************************************************)
(* The manual replay loops: run_enhanced_backtest                          *)
(* (src/run_enhanced_backtests.py) and run_improved_backtest               *)
(* (src/run_enhanced_backtests_v2.py), both over EnhancedSMAStrategy       *)
(* (src/trader/enhanced_strategies.py).  The frames have at least 100      *)
(* bars; the first iterations of each loop are followed.                   *)
(* What analyze() reads off the window is drawn bar by bar: how the        *)
(* averages stand, and in which zone RSI, the MACD histogram and the slope *)
(* of the slow average lie.                                                *)
(***************************************************************************)
MaxReplayBars == 14
\* of run_enhanced_backtest, which may trade on every bar, fewer
MaxEnhancedBars == 4
ReplayPrices == {1, 2}
\* the defaults of both functions
ReplayInitialCapital == 100
ReplayLeverage == 3
\* run_enhanced_backtests_v2.py, the improvement parameters
MIN_CONFIRMATION_BARS == 2
MIN_BARS_BETWEEN_TRADES == 10
MIN_CONFIDENCE == <<13, 20>>
PULLBACK_PCT == <<1, 50>>

SmaStates == {"bullish_cross", "bearish_cross", "uptrend", "downtrend"}
RsiZones == {"below_oversold", "oversold_to_50", "at_50", "50_to_overbought",
             "above_overbought"}
MacdZones == {"negative", "zero", "positive"}
SlopeZones == {"flat", "rising", "falling", "at_threshold"}

\* 1. Base SMA signal
EnhancedBase(sma) ==
    CASE sma = "bullish_cross" -> [signal |-> LONG, confidence |-> <<1, 2>>]
      [] sma = "bearish_cross" -> [signal |-> SHORT, confidence |-> <<1, 2>>]
      [] sma = "uptrend" -> [signal |-> LONG, confidence |-> <<3, 10>>]
      [] OTHER -> [signal |-> SHORT, confidence |-> <<3, 10>>]

\* 2. RSI Filter
EnhancedRsi(r, rsi) ==
    IF r.signal = LONG /\ rsi = "above_overbought"
    THEN [signal |-> NEUTRAL, confidence |-> Rat(0)]
    ELSE IF r.signal = SHORT /\ rsi = "below_oversold"
    THEN [signal |-> NEUTRAL, confidence |-> Rat(0)]
    ELSE IF r.signal = LONG /\ rsi \in {"below_oversold", "oversold_to_50"}
    THEN [r EXCEPT !.confidence = RAdd(@, <<3, 20>>)]
    ELSE IF r.signal = SHORT /\ rsi \in {"50_to_overbought", "above_overbought"}
    THEN [r EXCEPT !.confidence = RAdd(@, <<3, 20>>)]
    ELSE r

\* 3. MACD Confirmation
EnhancedMacd(r, macd) ==
    IF r.signal = NEUTRAL THEN r
    ELSE IF (r.signal = LONG /\ macd = "positive")
             \/ (r.signal = SHORT /\ macd = "negative")
    THEN [r EXCEPT !.confidence = RAdd(@, <<1, 5>>)]
    ELSE IF macd = "zero" THEN r
    ELSE [r EXCEPT !.confidence = RSub(@, <<3, 20>>)]

\* 4. Slope Filter
EnhancedSlope(r, slope) ==
    IF r.signal = NEUTRAL THEN r
    ELSE IF slope = "flat"
    THEN [r EXCEPT !.confidence = RMul(@, <<1, 2>>)]
    ELSE IF (r.signal = LONG /\ slope = "rising")
             \/ (r.signal = SHORT /\ slope = "falling")
    THEN [r EXCEPT !.confidence = RAdd(@, <<3, 20>>)]
    ELSE r

\* confidence = min(1.0, max(0.0, confidence)); below 0.3 the signal is NEUTRAL
EnhancedCap(r) ==
    LET c == IF RLt(r.confidence, Rat(0)) THEN Rat(0)
             ELSE IF RLt(Rat(1), r.confidence) THEN Rat(1) ELSE r.confidence
    IN  [signal |-> IF RLt(c, <<3, 10>>) THEN NEUTRAL ELSE r.signal,
         confidence |-> c]

\* EnhancedSMAStrategy.analyze with the three filters on, as both loops build it
EnhancedAnalyze(sma, rsi, macd, slope) ==
    EnhancedCap(EnhancedSlope(EnhancedMacd(EnhancedRsi(EnhancedBase(sma), rsi),
                                           macd), slope))

\* the TradeSignals analyze() can return
EnhancedOutcomes ==
    {EnhancedAnalyze(sma, rsi, macd, slope) :
        sma \in SmaStates, rsi \in RsiZones, macd \in MacdZones,
        slope \in SlopeZones}

\* what the loops read off a TradeSignal: its signal, and whether its
\* confidence passes "signal_result.confidence < MIN_CONFIDENCE"
Reading(out) ==
    [signal |-> out.signal, confident |-> ~RLt(out.confidence, MIN_CONFIDENCE)]

Readings == {Reading(out) : out \in EnhancedOutcomes}

\* a loop without the cooldown
NoCooldown(since) == FALSE

\* "if bars_since_last_trade < MIN_BARS_BETWEEN_TRADES"
InCooldown(since) == since < MIN_BARS_BETWEEN_TRADES

\* an entry that does not record its price
OpenedWithoutPrice(side, price) == [position |-> side, entry_price |-> 0]

\* "position = side; entry_price = current_price"
Opened(side, price) == [position |-> side, entry_price |-> price]

\* "position = 0; entry_price = 0"
Closed == [position |-> 0, entry_price |-> 0]

\* the profit or loss of closing the position at the price, lines 152 and 166
Pnl(pos, entry, price, capital_now) ==
    RMul(RMul(Norm(pos * (price - entry), entry), Rat(ReplayLeverage)),
         capital_now)

\* the name the trades list gives a position
SideName(pos) == IF pos = 1 THEN "long" ELSE "short"

\* signal_buffer after the append and the pop(0)
Buffered(buffer, sig) ==
    LET b == Append(buffer, sig)
    IN  IF Len(b) > MIN_CONFIRMATION_BARS THEN Tail(b) ELSE b

\* confirmed_signal after the confirmation and the four filters; "None" when
\* there is none
Confirmed(buffer, out, too_volatile, low_volume, since) ==
    IF /\ Len(buffer) = MIN_CONFIRMATION_BARS
       /\ \A k \in 1..Len(buffer) : buffer[k] = buffer[1]
       /\ ~too_volatile
       /\ ~low_volume
       /\ out.confident
       /\ ~InCooldown(since)
    THEN <<buffer[1]>>
    ELSE <<>>

ReplayInit ==
    /\ BacktesterIdle
    /\ AnalysisIdle
    /\ CrossoverIdle
    /\ BatchIdle
    /\ IngestIdle
    /\ IndicatorIdle
    /\ LookupIdle
    /\ BotIdle
    /\ KrakenIdle
    /\ replay_loop \in {"enhanced", "improved"}
    /\ bar = Warmup
    /\ replay_capital = Rat(ReplayInitialCapital)
    /\ replay_position = 0
    /\ replay_entry_price = 0
    /\ replay_trades = <<>>
    /\ equity_last = Rat(ReplayInitialCapital)
    /\ signal_buffer = <<>>
    /\ bars_since_last_trade = MIN_BARS_BETWEEN_TRADES
    /\ looking_to_long = FALSE
    /\ looking_to_short = FALSE
    /\ entry_trigger_price = Rat(0)

\* one iteration of the loop of run_enhanced_backtest, lines 60-105
EnhancedBar ==
    /\ replay_loop = "enhanced"
    /\ bar < Warmup + MaxEnhancedBars
    /\ \E out \in Readings, current_price \in ReplayPrices :
          LET closing == replay_position # 0
                            /\ out.signal # replay_position
              realised == IF closing
                          THEN RAdd(replay_capital,
                                    Pnl(replay_position, replay_entry_price,
                                        current_price, replay_capital))
                          ELSE replay_capital
              closes == IF closing
                        THEN <<[type |-> "close_" \o SideName(replay_position),
                                price |-> current_price]>>
                        ELSE <<>>
              opens == IF out.signal # NEUTRAL /\ out.signal # replay_position
                       THEN <<[type |-> "open_" \o SideName(out.signal),
                               price |-> current_price]>>
                       ELSE <<>>
              held == IF out.signal = replay_position
                      THEN [position |-> replay_position,
                            entry_price |-> replay_entry_price]
                      ELSE IF out.signal = NEUTRAL THEN Closed
                      ELSE Opened(out.signal, current_price)
          IN  /\ replay_capital' = realised
              /\ replay_trades' = replay_trades \o closes \o opens
              /\ replay_position' = held.position
              /\ replay_entry_price' = held.entry_price
              /\ equity_last' = realised
    /\ bar' = bar + 1
    /\ UNCHANGED <<replay_loop, signal_buffer, bars_since_last_trade,
                   looking_to_long, looking_to_short, entry_trigger_price>>
    /\ UNCHANGED <<backtester_vars, analysis_vars, crossover_vars, batch_vars,
                   ingest_vars, indicator_vars,
                   lookup_vars,
                   bot_vars,
                   kraken_vars>>

\* one iteration of the loop of run_improved_backtest, lines 96-207
ImprovedBar ==
    /\ replay_loop = "improved"
    /\ bar < Warmup + MaxReplayBars
    /\ \E out \in Readings, current_price \in ReplayPrices,
          too_volatile \in BOOLEAN, low_volume \in BOOLEAN :
          LET since == bars_since_last_trade + 1
              buffer == Buffered(signal_buffer, out.signal)
              confirmed == Confirmed(buffer, out, too_volatile, low_volume, since)
              \* lines 138-146: the pending orders
              set_long == confirmed = <<LONG>> /\ replay_position # 1
                              /\ ~looking_to_long
              set_short == ~set_long /\ confirmed = <<SHORT>>
                              /\ replay_position # -1 /\ ~looking_to_short
              long1 == IF set_long THEN TRUE
                       ELSE IF set_short THEN FALSE ELSE looking_to_long
              short1 == IF set_long THEN FALSE
                        ELSE IF set_short THEN TRUE ELSE looking_to_short
              trigger == IF set_long
                         THEN RMul(Rat(current_price), RSub(Rat(1), PULLBACK_PCT))
                         ELSE IF set_short
                         THEN RMul(Rat(current_price), RAdd(Rat(1), PULLBACK_PCT))
                         ELSE entry_trigger_price
              \* lines 149-175: the pullback entry
              fill_long == long1 /\ RLe(Rat(current_price), trigger)
              fill_short == ~fill_long /\ short1 /\ RLe(trigger, Rat(current_price))
              side == IF fill_long THEN 1 ELSE -1
              filled == fill_long \/ fill_short
              reversing == filled /\ replay_position = -side
              capital2 == IF reversing
                          THEN RAdd(replay_capital,
                                    Pnl(replay_position, replay_entry_price,
                                        current_price, replay_capital))
                          ELSE replay_capital
              trades2 == replay_trades
                  \o (IF reversing
                      THEN <<[type |-> "close_" \o SideName(replay_position),
                              price |-> current_price, bar |-> bar]>>
                      ELSE <<>>)
                  \o (IF filled
                      THEN <<[type |-> "open_" \o SideName(side),
                              price |-> current_price, bar |-> bar]>>
                      ELSE <<>>)
              held2 == IF filled THEN Opened(side, current_price)
                       ELSE [position |-> replay_position,
                             entry_price |-> replay_entry_price]
              long2 == IF fill_long THEN FALSE ELSE long1
              short2 == IF fill_short THEN FALSE ELSE short1
              since2 == IF filled THEN 0 ELSE since
              \* lines 178-181: a pending order is cancelled by the reverse signal
              long3 == IF confirmed = <<SHORT>> THEN FALSE ELSE long2
              short3 == IF confirmed = <<LONG>> THEN FALSE ELSE short2
              \* lines 184-197: NEUTRAL closes the position
              neutral == confirmed = <<NEUTRAL>> /\ held2.position # 0
              capital4 == IF neutral
                          THEN RAdd(capital2,
                                    Pnl(held2.position, held2.entry_price,
                                        current_price, capital2))
                          ELSE capital2
              held4 == IF neutral THEN Closed ELSE held2
          IN  /\ signal_buffer' = buffer
              /\ replay_capital' = capital4
              /\ replay_trades' = trades2
                     \o (IF neutral
                         THEN <<[type |-> "close_" \o SideName(held2.position),
                                 price |-> current_price, bar |-> bar]>>
                         ELSE <<>>)
              /\ replay_position' = held4.position
              /\ replay_entry_price' = held4.entry_price
              /\ looking_to_long' = (long3 /\ ~neutral)
              /\ looking_to_short' = (short3 /\ ~neutral)
              /\ entry_trigger_price' = trigger
              /\ bars_since_last_trade' = IF neutral THEN 0 ELSE since2
              \* lines 200-207: the equity with the unrealised profit or loss
              /\ equity_last' =
                     IF held4.position # 0
                     THEN RAdd(capital4,
                               Pnl(held4.position, held4.entry_price,
                                   current_price, capital4))
                     ELSE capital4
    /\ bar' = bar + 1
    /\ UNCHANGED replay_loop
    /\ UNCHANGED <<backtester_vars, analysis_vars, crossover_vars, batch_vars,
                   ingest_vars, indicator_vars,
                   lookup_vars,
                   bot_vars,
                   kraken_vars>>

ReplayNext ==
    \/ EnhancedBar
    \/ ImprovedBar

ReplaySpec == ReplayInit /\ [][ReplayNext]_vars

(***************************************************************************)
(* get_strategy (src/trader/strategies.py, lines 618-652) as a lookup:     *)
(* which object a name gives.  A name is a text in lower case and whether  *)
(* it was written in upper case; an object is written as the constructor   *)
(* call that built it.                                                     *)
(***************************************************************************)
\* the dict `strategies` of get_strategy
BaseStrategies ==
    [sma |-> "SMAStrategy(use_rsi_filter=True)",
     macd |-> "MACDStrategy(use_rsi_filter=True)",
     combined |-> "CombinedStrategy(use_rsi_filter=True)",
     sma_no_rsi |-> "SMAStrategy(use_rsi_filter=False)",
     macd_no_rsi |-> "MACDStrategy(use_rsi_filter=False)",
     combined_no_rsi |-> "CombinedStrategy(use_rsi_filter=False)",
     breakout |-> "BreakoutStrategy(lookback=30)",
     breakout_20 |-> "BreakoutStrategy(lookback=20)",
     breakout_30 |-> "BreakoutStrategy(lookback=30)",
     breakout_50 |-> "BreakoutStrategy(lookback=50)",
     ichimoku |-> "IchimokuStrategy()",
     ichimoku_9_26_52 |-> "IchimokuStrategy(9, 26, 52)",
     ichimoku_fast |-> "IchimokuStrategy(7, 22, 44)"]

\* advanced_strategies.ADVANCED_STRATEGIES
ADVANCED_STRATEGIES ==
    [momentum_breakout |-> "MomentumBreakoutStrategy()",
     momentum_breakout_10 |-> "MomentumBreakoutStrategy(breakout_period=10)",
     momentum_breakout_30 |-> "MomentumBreakoutStrategy(breakout_period=30)",
     supertrend |-> "SuperTrendStrategy()",
     supertrend_fast |-> "SuperTrendStrategy(period=7, multiplier=2.5)",
     supertrend_slow |-> "SuperTrendStrategy(period=14, multiplier=3.5)",
     adx_trend |-> "ADXTrendStrategy()",
     adx_trend_20 |-> "ADXTrendStrategy(adx_threshold=20)",
     adx_trend_30 |-> "ADXTrendStrategy(adx_threshold=30)",
     volatility_breakout |-> "VolatilityBreakoutStrategy()",
     triple_sma |-> "TripleSMAStrategy()",
     triple_sma_fast |-> "TripleSMAStrategy(fast=5, medium=10, slow=30)",
     triple_sma_slow |-> "TripleSMAStrategy(fast=20, medium=50, slow=100)",
     rsi_momentum |-> "RSIMomentumStrategy()",
     rsi_momentum_55_45 |-> "RSIMomentumStrategy(bull_threshold=55, bear_threshold=45)",
     rsi_momentum_65_35 |-> "RSIMomentumStrategy(bull_threshold=65, bear_threshold=35)"]
    @@ ("volatility_breakout_1.5" :> "VolatilityBreakoutStrategy(atr_multiplier=1.5)")
    @@ ("volatility_breakout_2.5" :> "VolatilityBreakoutStrategy(atr_multiplier=2.5)")

\* adaptive_strategies.ADAPTIVE_STRATEGIES
ADAPTIVE_STRATEGIES ==
    [mean_rev_bollinger |-> "AdaptiveMeanRevBollingerStrategy()",
     momentum_divergence |-> "AdaptiveMomentumDivergenceStrategy()",
     momentum_macd |-> "AdaptiveMomentumMACDStrategy()",
     mean_rev_zscore |-> "AdaptiveMeanRevZScoreStrategy()",
     mean_rev_keltner |-> "AdaptiveMeanRevKeltnerStrategy()",
     momentum_roc |-> "AdaptiveMomentumROCStrategy()",
     momentum_roc_3 |-> "AdaptiveMomentumROCStrategy(threshold=3.0)",
     multi_tf_macd_rsi |-> "MultiTimeframeMACDRSIStrategy()",
     stoch_rsi |-> "StochasticRSIStrategy()"]
    @@ ("mean_rev_zscore_1.5" :> "AdaptiveMeanRevZScoreStrategy(entry_z=1.5)")
    @@ ("mean_rev_zscore_2.5" :> "AdaptiveMeanRevZScoreStrategy(entry_z=2.5)")

\* run_all_backtests.ALL_STRATEGIES = STRATEGIES + ADVANCED_STRATEGIES
\* + ADAPTIVE_STRATEGIES
ALL_STRATEGIES ==
    {"sma", "macd", "combined", "breakout", "ichimoku"}
    \cup {"momentum_breakout", "supertrend", "adx_trend", "volatility_breakout",
          "triple_sma", "rsi_momentum"}
    \cup {"mean_rev_bollinger", "momentum_divergence", "momentum_macd",
          "mean_rev_zscore", "mean_rev_keltner", "momentum_roc",
          "multi_tf_macd_rsi", "stoch_rsi"}

\* the names looked up: every key of the three registries and a name that is
\* no key, in lower and in upper case
LookupNames ==
    {[text |-> k, upper |-> u] :
        k \in DOMAIN BaseStrategies \cup DOMAIN ADVANCED_STRATEGIES
                 \cup DOMAIN ADAPTIVE_STRATEGIES \cup {"no_such_strategy"},
        u \in BOOLEAN}

\* name.lower()
Lower(name) == name.text

None == "None"

\* get_advanced_strategy: ADVANCED_STRATEGIES.get(name.lower())
get_advanced_strategy(name) ==
    IF Lower(name) \in DOMAIN ADVANCED_STRATEGIES
    THEN ADVANCED_STRATEGIES[Lower(name)] ELSE None

\* get_adaptive_strategy: ADAPTIVE_STRATEGIES.get(name.lower())
get_adaptive_strategy(name) ==
    IF Lower(name) \in DOMAIN ADAPTIVE_STRATEGIES
    THEN ADAPTIVE_STRATEGIES[Lower(name)] ELSE None

\* get_strategy: the base dict, then the advanced registry, then the default
LookUpStrategy(name) ==
    IF Lower(name) \in DOMAIN BaseStrategies THEN BaseStrategies[Lower(name)]
    ELSE IF get_advanced_strategy(name) # None THEN get_advanced_strategy(name)
    ELSE "SMAStrategy()"

LookupInit ==
    /\ BacktesterIdle
    /\ AnalysisIdle
    /\ CrossoverIdle
    /\ BatchIdle
    /\ IngestIdle
    /\ IndicatorIdle
    /\ ReplayIdle
    /\ BotIdle
    /\ KrakenIdle
    /\ requested \in LookupNames
    /\ resolved = <<>>

CallGetStrategy ==
    /\ resolved = <<>>
    /\ resolved' = <<LookUpStrategy(requested)>>
    /\ UNCHANGED requested
    /\ UNCHANGED <<backtester_vars, analysis_vars, crossover_vars, batch_vars,
                   ingest_vars, indicator_vars, replay_vars,
                   bot_vars,
                   kraken_vars>>

LookupNext == CallGetStrategy

LookupSpec == LookupInit /\ [][LookupNext]_vars

(***************************************************************************)
(* SimpleTrader (src/trader/bot.py): execute_trade with the state and the  *)
(* trade history it saves for the dashboard.                               *)
(***************************************************************************)
MaxBotTrades == 3
SignalPrices == {1, 2}

\* Signal.name
SignalName(sig) ==
    CASE sig = LONG -> "LONG"
      [] sig = SHORT -> "SHORT"
      [] OTHER -> "NEUTRAL"

\* the dict _save_state writes: the position by name ("NONE" without one) and
\* "self.entry_price or 0"
SavedState(pos, entry) ==
    [position |-> IF pos = <<>> THEN "NONE" ELSE SignalName(pos[1]),
     entry_price |-> IF entry = <<>> THEN 0 ELSE entry[1]]

\* the entry _record_trade appends to self.trades
TradeEntry(sig, price, dry) ==
    [signal |-> SignalName(sig), price |-> price, dry_run |-> dry]

\* "self.trades[-100:]"
LastHundred(l) == IF Len(l) > 100 THEN SubSeq(l, Len(l) - 99, Len(l)) ELSE l

BotInit ==
    /\ BacktesterIdle
    /\ AnalysisIdle
    /\ CrossoverIdle
    /\ BatchIdle
    /\ IngestIdle
    /\ IndicatorIdle
    /\ ReplayIdle
    /\ LookupIdle
    /\ KrakenIdle
    /\ dry_run \in BOOLEAN
    /\ current_position = <<>>
    /\ entry_price = <<>>
    /\ bot_trades = <<>>
    /\ state_file = <<>>
    /\ history_file = <<>>
    /\ returned = ""

\* execute_trade(signal), lines 105-156; in live mode the order may raise
ExecuteTrade(sig, price) ==
    /\ Len(bot_trades) < MaxBotTrades
    /\ IF current_position = <<sig>>
       THEN \* "Already in ... position, no action needed"
            /\ returned' = "False"
            /\ UNCHANGED <<current_position, entry_price, bot_trades,
                           state_file, history_file>>
       ELSE \/ \* client.buy or client.sell raises: "Error executing trade"
               /\ ~dry_run
               /\ sig # NEUTRAL
               /\ returned' = "False"
               /\ UNCHANGED <<current_position, entry_price, bot_trades,
                              state_file, history_file>>
            \/ \* _record_trade, with the _save_state and _save_trade_history
               \* it ends with, and then the new position
               /\ bot_trades' = Append(bot_trades, TradeEntry(sig, price, dry_run))
               /\ state_file' = <<SavedState(current_position, entry_price)>>
               /\ history_file' = <<LastHundred(bot_trades')>>
               /\ current_position' = <<sig>>
               /\ entry_price' = <<price>>
               /\ returned' = "True"
    /\ UNCHANGED dry_run
    /\ UNCHANGED <<backtester_vars, analysis_vars, crossover_vars, batch_vars,
                   ingest_vars, indicator_vars, replay_vars, lookup_vars,
                   kraken_vars>>

BotNext ==
    \E sig \in {LONG, SHORT, NEUTRAL}, price \in SignalPrices :
        ExecuteTrade(sig, price)

BotSpec == BotInit /\ [][BotNext]_vars

(***************************************************************************)
(* KrakenLeveragedTrader (src/trader/kraken_strategy.py): execute_signal   *)
(* with the state file it loads and saves.  Every call of the exchange     *)
(* client, and the writing of the file, either succeeds or raises.         *)
(***************************************************************************)
MaxOrders == 3
KrakenPairs == {"ADA-USD", "DOGE-USD"}
KrakenPrices == {1, 2}

\* self.positions.get(pair) is None
NoPosition == [side |-> "none", entry_price |-> 0]

\* the action execute_signal decides on, lines 137-162; "" when there is none
ActionFor(signal, current_side) ==
    CASE signal = LONG /\ current_side = "short" -> "close_short_open_long"
      [] signal = LONG /\ current_side = "none" -> "open_long"
      [] signal = SHORT /\ current_side = "long" -> "close_long_open_short"
      [] signal = SHORT /\ current_side = "none" -> "open_short"
      [] signal = NEUTRAL /\ current_side \in {"long", "short"}
             -> "close_" \o current_side
      [] OTHER -> ""

\* '"close" in action' and '"open_long" in action'
ClosesPosition(action) ==
    action \in {"close_short_open_long", "close_long_open_short", "close_long",
                "close_short"}
OpensSide(action) ==
    CASE action \in {"close_short_open_long", "open_long"} -> "long"
      [] action \in {"close_long_open_short", "open_short"} -> "short"
      [] OTHER -> "none"

\* the steps of the try block, in the order they are taken
KrakenSteps == <<"get_price", "close", "open", "save">>

\* the first step that raises, or "none"
FailurePoints == {"none", "get_price", "close", "open", "save"}

\* the step is reached and done: no earlier or equal step raises
Done(step, failure) ==
    \/ failure = "none"
    \/ \E a, b \in 1..Len(KrakenSteps) :
          /\ KrakenSteps[a] = step
          /\ KrakenSteps[b] = failure
          /\ a < b

\* "self._save_state()" is the last statement of the try block, and
\* _save_state swallows its own errors
Saved(failure) == failure = "none"

KrakenInit ==
    /\ BacktesterIdle
    /\ AnalysisIdle
    /\ CrossoverIdle
    /\ BatchIdle
    /\ IngestIdle
    /\ IndicatorIdle
    /\ ReplayIdle
    /\ LookupIdle
    /\ BotIdle
    /\ kraken_dry_run \in BOOLEAN
    /\ positions = [p \in KrakenPairs |-> NoPosition]
    /\ saved_positions = [p \in KrakenPairs |-> NoPosition]
    /\ orders = <<>>
    /\ kraken_returned = ""

\* execute_signal(pair, signal), lines 131-223
ExecuteSignal(pair, signal, price, failure) ==
    /\ Len(orders) < MaxOrders
    /\ LET current_pos == positions[pair]
           action == ActionFor(signal, current_pos.side)
           closing == ClosesPosition(action) /\ Done("close", failure)
           opening == OpensSide(action) # "none" /\ Done("open", failure)
           after_close == IF closing THEN NoPosition ELSE current_pos
           after_open == IF opening
                         THEN [side |-> OpensSide(action), entry_price |-> price]
                         ELSE after_close
       IN  IF action = ""
           THEN /\ kraken_returned' = "None"
                /\ UNCHANGED <<positions, saved_positions, orders>>
           ELSE IF kraken_dry_run
           THEN /\ kraken_returned' = "dry_run"
                /\ UNCHANGED <<positions, saved_positions, orders>>
           ELSE /\ positions' = [positions EXCEPT ![pair] = after_open]
                /\ orders' = orders
                      \o (IF closing
                          THEN <<[pair |-> pair, order |-> "close_" \o current_pos.side]>>
                          ELSE <<>>)
                      \o (IF opening
                          THEN <<[pair |-> pair, order |-> "open_" \o OpensSide(action)]>>
                          ELSE <<>>)
                /\ saved_positions' = IF Saved(failure) THEN positions'
                                      ELSE saved_positions
                /\ kraken_returned' = IF failure \in {"none", "save"}
                                      THEN "result" ELSE "error"
    /\ UNCHANGED kraken_dry_run
    /\ UNCHANGED <<backtester_vars, analysis_vars, crossover_vars, batch_vars,
                   ingest_vars, indicator_vars, replay_vars, lookup_vars, bot_vars>>

KrakenNext ==
    \E pair \in KrakenPairs, signal \in {LONG, SHORT, NEUTRAL},
       price \in KrakenPrices, failure \in FailurePoints :
        ExecuteSignal(pair, signal, price, failure)

KrakenSpec == KrakenInit /\ [][KrakenNext]_vars

(***************************************************************************)
(* run() as a function of its inputs: the frame run() builds for a series, *)
(* used to compare the run in hand with the run on another series.         *)
(***************************************************************************)
\* the list signals after the loop "for i in range(60, len(df))"
RunSignals(st, m, df) ==
    Column([k \in 1..(Len(df) - Warmup) |->
        Coerce(m, Analyze(st, Window(df, Warmup + k - 1)))])

RunFrame(st, m, lev, capital, df) ==
    Frame(df, RunSignals(st, m, df), lev, capital)

\* the strategy objects get_strategy hands out, by their name attribute
StrategyNamed(n) ==
    CHOOSE st \in {get_strategy(x) : x \in StrategyNames} : st.name = n

\* a call of run() has returned and nothing has been called since
Returned == pc = "idle" /\ outcome = "returned"

\* bars 0..k-1 of a series
Prefix(df, k) == [p \in 1..k |-> df[p]]

\* the number of leading bars on which two series agree
RECURSIVE AgreeFrom(_, _, _)
AgreeFrom(s1, s2, p) ==
    IF p > Len(s1) \/ p > Len(s2) THEN p - 1
    ELSE IF s1[p] # s2[p] THEN p - 1
    ELSE AgreeFrom(s1, s2, p + 1)
Agreement(s1, s2) == AgreeFrom(s1, s2, 1)

\* the series run() accepts that agree with df on every bar before df's last:
\* df with its last bar changed, and df without its last bar
Perturbed(df) ==
    IF df = <<>> THEN {}
    ELSE {s2 \in {[df EXCEPT ![Len(df)] = q] : q \in Prices}
                    \cup {SubSeq(df, 1, Len(df) - 1)} :
             /\ ~InsufficientData(TRUE, s2)
             /\ s2 # df}

(***************************************************************************)
(* C1.  Causality: the signal recorded at bar i >= 60 is the signal the    *)
(* strategy gives on the series truncated to bars [0..i], coerced by the   *)
(* mode; no bar after i takes part.  It holds of the list signals while    *)
(* the loop runs and of the signal column of the frame once run() returned.*)
(***************************************************************************)
C1_Causality ==
    /\ pc = "signals" =>
        \A k \in 1..Len(signals) :
            signals[k] = Coerce(mode, Analyze(strategy, Prefix(self_df, Warmup + k)))
    /\ Returned =>
        /\ Len(results_df[1].signal) = Len(self_df)
        /\ \A b \in Warmup..(Len(self_df) - 1) :
              results_df[1].signal[b + 1]
                  = Coerce(mode, Analyze(StrategyNamed(last_strategy_name),
                                         Prefix(self_df, b + 1)))

\* a run returned whose bar 60 has a signal that the closes after bar 60, read
\* as the current bar, would not have given
C1_Witness ==
    /\ Returned
    /\ Len(self_df) > Warmup + 1
    /\ results_df[1].signal[Warmup + 1] # NEUTRAL
    /\ results_df[1].signal[Warmup + 1]
           # Coerce(mode, Analyze(StrategyNamed(last_strategy_name), self_df))

(***************************************************************************)
(* C2.  No-lookahead P&L: when another series agrees with the series of    *)
(* the run on bars [0..i], the two runs have the same strategy_returns and *)
(* portfolio_value on every bar up to i.  Checked against every series     *)
(* that differs from the run's in its last bar or lacks it; series that    *)
(* differ in more bars are reached through a chain of such steps.          *)
(***************************************************************************)
C2_NoLookaheadPnL ==
    Returned =>
        \A s2 \in Perturbed(self_df) :
            \A g \in {RunFrame(StrategyNamed(last_strategy_name), mode, leverage,
                               initial_capital, s2)} :
                LET c == Agreement(self_df, s2)
                IN  /\ SubSeq(results_df[1].strategy_returns, 1, c)
                          = SubSeq(g.strategy_returns, 1, c)
                    /\ SubSeq(results_df[1].portfolio_value, 1, c)
                          = SubSeq(g.portfolio_value, 1, c)

\* a run in a position at its last bar, whose other last closes change its result
C2_Witness ==
    /\ Returned
    /\ Len(self_df) > Warmup + 1
    /\ results_df[1].signal[Len(self_df) - 1] # NEUTRAL
    /\ \E s2 \in Perturbed(self_df) :
           /\ Len(s2) = Len(self_df)
           /\ RunFrame(StrategyNamed(last_strategy_name), mode, leverage,
                       initial_capital, s2).portfolio_value[Len(s2)]
                  # results_df[1].portfolio_value[Len(self_df)]

(***************************************************************************)
(* C3.  The position return of every bar i >= 1 is                         *)
(* signal(i-1) x (close(i) - close(i-1)) / close(i-1) x leverage: the      *)
(* signal is the one recorded on the previous bar.                         *)
(***************************************************************************)
C3_PositionReturn ==
    Returned =>
        \A b \in 1..(Len(self_df) - 1) :
            results_df[1].strategy_returns[b + 1]
                = Norm(results_df[1].signal[b] * leverage
                           * (self_df[b + 1] - self_df[b]),
                       self_df[b])

\* a run with a bar whose own signal differs from the previous bar's, the
\* previous one being a position, while the close moved
C3_Witness ==
    /\ Returned
    /\ \E b \in 1..(Len(self_df) - 1) :
           /\ results_df[1].signal[b] # NEUTRAL
           /\ results_df[1].signal[b + 1] # results_df[1].signal[b]
           /\ self_df[b + 1] # self_df[b]

(***************************************************************************)
(* C4.  The equity curve is seeded with initial_capital on the warm-up     *)
(* bar (index 60) and compounds from there:                                *)
(* portfolio_value(i) = portfolio_value(i-1) x (1 + positionReturn(i)).    *)
(***************************************************************************)
C4_EquityCurve ==
    (Returned /\ Len(self_df) > Warmup) =>
        /\ results_df[1].portfolio_value[Warmup + 1] = Rat(initial_capital)
        /\ \A b \in (Warmup + 1)..(Len(self_df) - 1) :
              results_df[1].portfolio_value[b + 1]
                  = RMul(results_df[1].portfolio_value[b],
                         RAdd(Rat(1), results_df[1].strategy_returns[b + 1]))

\* a run with two position returns other than 0
C4_Witness ==
    /\ Returned
    /\ \E b \in (Warmup + 1)..(Len(self_df) - 2) :
           /\ results_df[1].strategy_returns[b + 1] # Rat(0)
           /\ results_df[1].strategy_returns[b + 2] # Rat(0)

(***************************************************************************)
(* C5.  Long-only coercion: in long_only mode neither the signals being    *)
(* recorded, nor the signal column, nor a row of the trade log holds SHORT.*)
(***************************************************************************)
C5_LongOnlyCoercion ==
    mode = "long_only" =>
        /\ \A k \in 1..Len(signals) : signals[k] \in {NEUTRAL, LONG}
        /\ results_df # <<>> =>
              /\ \A p \in 1..Len(results_df[1].signal) :
                    results_df[1].signal[p] \in {NEUTRAL, LONG}
              /\ \A k \in 1..Len(trade_points) :
                    results_df[1].signal[trade_points[k] + 1] \in {NEUTRAL, LONG}

\* a long_only run on a bar of which the strategy said SHORT
C5_Witness ==
    /\ mode = "long_only"
    /\ Returned
    /\ \E b \in Warmup..(Len(self_df) - 1) :
           /\ Analyze(StrategyNamed(last_strategy_name), Prefix(self_df, b + 1))
                  = SHORT
           /\ results_df[1].signal[b + 1] = NEUTRAL

(***************************************************************************)
(* C6.  run() on fewer than warm-up + 1 = 61 bars raises and returns no    *)
(* BacktestResult.                                                         *)
(***************************************************************************)
C6_RefusesShortSeries ==
    /\ outcome \in {"running", "returned"} => Len(self_df) >= Warmup + 1
    /\ (outcome = "raised") => (~fetched \/ Len(self_df) < Warmup + 1)

(***************************************************************************)
(* C7.  The trade log has an entry at bar i exactly when                   *)
(* signal(i) # signal(i-1), and total_trades is the number of such bars.   *)
(***************************************************************************)
Transitions(signal) ==
    {b \in 1..(Len(signal) - 1) : signal[b + 1] # signal[b]}

C7_TradeLog ==
    Returned =>
        /\ {trade_points[k] : k \in 1..Len(trade_points)}
              = Transitions(results_df[1].signal)
        /\ Len(trade_points) = Cardinality(Transitions(results_df[1].signal))
        /\ result[1].total_trades
              = Cardinality(Transitions(results_df[1].signal))

\* a run with a direct LONG -> SHORT reversal followed by a bar that keeps the signal
C7_Witness ==
    /\ Returned
    /\ \E b \in 1..(Len(self_df) - 2) :
           /\ results_df[1].signal[b] = LONG
           /\ results_df[1].signal[b + 1] = SHORT
           /\ results_df[1].signal[b + 2] = SHORT
           /\ b \in {trade_points[k] : k \in 1..Len(trade_points)}
           /\ (b + 1) \notin {trade_points[k] : k \in 1..Len(trade_points)}

(***************************************************************************)
(* C8.  Per-trade return attribution: the return of the trade between the  *)
(* consecutive transitions at bars a < b is the sum of the position        *)
(* returns of bars a+1..b, so that no bar is counted in two trades.        *)
(***************************************************************************)
C8_TradeReturnAttribution ==
    Returned =>
        /\ Len(trade_returns) = Len(trade_points) - 1 \/ trade_points = <<>>
        /\ \A k \in 1..Len(trade_returns) :
              trade_returns[k]
                  = SumRows(results_df[1].strategy_returns,
                            trade_points[k] + 2, trade_points[k + 1] + 1)

(***************************************************************************)
(* C9.  Every trade-log transition contributes one per-trade return: the   *)
(* number of per-trade returns behind the win/loss statistics equals       *)
(* total_trades.                                                           *)
(***************************************************************************)
C9_OneReturnPerTransition ==
    Returned => Len(trade_returns) = result[1].total_trades

(***************************************************************************)
(* C10.  Drawdown bound: max_drawdown_pct <= 0; it is 0 exactly when the   *)
(* equity curve never decreases; and it is the least, over the bars, of the  *)
(* bar's distance from the maximum of the curve over the bars up to it.    *)
(***************************************************************************)
\* the maximum of the rows up to p that hold a number
MaxSoFar(curve, p) ==
    LET seen == {curve[j] : j \in 1..p} \ {NaN}
    IN  CHOOSE m \in seen : \A x \in seen : RLe(x, m)

\* the least, over the rows that hold a number, of the row's percentage
\* distance from the maximum so far
LeastDrawdown(curve) ==
    LET rows == {p \in 1..Len(curve) : ~IsNaN(curve[p])}
        dds == {RMul(RDiv(RSub(curve[p], MaxSoFar(curve, p)), MaxSoFar(curve, p)),
                     Rat(100)) : p \in rows}
    IN  CHOOSE d \in dds : \A x \in dds : RLe(d, x)

NonDecreasing(curve) ==
    \A p \in 2..Len(curve) :
        (~IsNaN(curve[p - 1]) /\ ~IsNaN(curve[p])) => RLe(curve[p - 1], curve[p])

C10_DrawdownBound ==
    Returned =>
        /\ RLe(result[1].max_drawdown_pct, Rat(0))
        /\ (result[1].max_drawdown_pct = Rat(0))
              <=> NonDecreasing(results_df[1].portfolio_value)
        /\ result[1].max_drawdown_pct
              = LeastDrawdown(results_df[1].portfolio_value)

\* a run whose equity rose, fell below the maximum, and rose again
C10_Witness ==
    /\ Returned
    /\ RLt(result[1].max_drawdown_pct, Rat(0))
    /\ \E p \in 2..(Len(self_df) - 1) :
           /\ RLt(results_df[1].portfolio_value[p],
                  results_df[1].portfolio_value[p + 1])
           /\ \E q \in (p + 1)..(Len(self_df) - 1) :
                  RLt(results_df[1].portfolio_value[q + 1],
                      results_df[1].portfolio_value[q])

(***************************************************************************)
(* C11.  Sharpe degenerate case: when the position returns of a run have   *)
(* zero standard deviation (or fewer than two samples), sharpe_ratio is 0; *)
(* and sharpe_ratio is never NaN or infinite.                              *)
(***************************************************************************)
\* the position returns that hold a number are all the same
ZeroDeviation(strategy_returns) ==
    \A p, q \in 1..Len(strategy_returns) :
        (~IsNaN(strategy_returns[p]) /\ ~IsNaN(strategy_returns[q]))
            => strategy_returns[p] = strategy_returns[q]

C11_SharpeDegenerate ==
    Returned =>
        /\ ~IsNaN(result[1].sharpe_ratio)
        /\ ZeroDeviation(results_df[1].strategy_returns)
              => result[1].sharpe_ratio = Rat(0)

\* a run that held a position on some bar while its position returns never moved
C11_Witness ==
    /\ Returned
    /\ ZeroDeviation(results_df[1].strategy_returns)
    /\ \E p \in 1..Len(self_df) : results_df[1].signal[p] # NEUTRAL
    /\ result[1].sharpe_ratio = Rat(0)

(***************************************************************************)
(* C12.  profit_factor is always finite: with no losing trade (the case of *)
(* no trade at all included) it is the sentinel 99.99, and otherwise it is *)
(* gross profit / |gross loss|.                                            *)
(***************************************************************************)
\* the sum of the per-trade returns of one sign (1: gains, -1: losses)
GrossOfSign(returns_list, sign) ==
    SumRows(Column([k \in 1..Len(returns_list) |->
                IF sign * returns_list[k][1] > 0 THEN returns_list[k]
                ELSE Rat(0)]),
            1, Len(returns_list))

C12_ProfitFactorFinite ==
    result # <<>> =>
        LET pf == result[1].profit_factor
            gains == GrossOfSign(trade_returns, 1)
            losses == GrossOfSign(trade_returns, -1)
        IN  /\ ~IsNaN(pf)
            /\ (losses = Rat(0)) => pf = <<9999, 100>>
            /\ (losses # Rat(0)) => RMul(pf, RSub(Rat(0), losses)) = gains

\* statistics over a list with a winning and a losing trade
C12_Witness ==
    /\ result # <<>>
    /\ \E k \in 1..Len(trade_returns) : trade_returns[k][1] > 0
    /\ \E k \in 1..Len(trade_returns) : trade_returns[k][1] < 0
    /\ RLt(Rat(0), result[1].profit_factor)
    /\ result[1].profit_factor # <<9999, 100>>

(***************************************************************************)
(* C13.  Warm-up: the strategy is invoked once per bar from bar 60 on and  *)
(* never for a bar below 60, on a window that begins at bar 0; every bar   *)
(* below 60 has signal NEUTRAL and no trade-log entry; the position return *)
(* is 0 and the equity is initial_capital on bars 1..59, and both are NaN  *)
(* on bar 0, which has no previous close.                                  *)
(***************************************************************************)
C13_WarmUp ==
    /\ pc = "signals" =>
          /\ i >= Warmup
          /\ Len(signals) = i - Warmup
          /\ \A k \in 1..Len(signals) :
                signals[k] = Coerce(mode, Analyze(strategy,
                                                  SubSeq(self_df, 1, Warmup + k)))
    /\ Returned =>
          /\ \A b \in 0..(Warmup - 1) :
                /\ results_df[1].signal[b + 1] = NEUTRAL
                /\ results_df[1].trade[b + 1] = 0
          /\ \A k \in 1..Len(trade_points) : trade_points[k] >= Warmup
          /\ \A b \in 1..(Warmup - 1) :
                /\ results_df[1].strategy_returns[b + 1] = Rat(0)
                /\ results_df[1].portfolio_value[b + 1] = Rat(initial_capital)
          /\ IsNaN(results_df[1].strategy_returns[1])
          /\ IsNaN(results_df[1].portfolio_value[1])

\* a run whose closes moved during the warm-up and that took a position on
\* bar 60 with a trade-log entry there
C13_Witness ==
    /\ Returned
    /\ \E b \in 1..(Warmup - 1) : self_df[b + 1] # self_df[b]
    /\ Len(self_df) > Warmup
    /\ results_df[1].signal[Warmup + 1] # NEUTRAL
    /\ trade_points # <<>>
    /\ trade_points[1] = Warmup

\* C13 as stated: the position return is 0 and the equity does not move on
\* every bar below 60, bar 0 included
C13_WarmUpEveryBar ==
    Returned =>
        \A b \in 0..(Warmup - 1) :
            /\ results_df[1].signal[b + 1] = NEUTRAL
            /\ results_df[1].trade[b + 1] = 0
            /\ results_df[1].strategy_returns[b + 1] = Rat(0)
            /\ results_df[1].portfolio_value[b + 1] = Rat(initial_capital)

(***************************************************************************)
(* C14.  The buy-and-hold benchmark is always long and unleveraged:        *)
(* hold_value(i) = hold_value(i-1) x (1 + percentChange(close(i-1),        *)
(* close(i))) wherever hold_value(i-1) is a number, starting from          *)
(* initial_capital x close(1) / close(0) on bar 1.  hold_value and         *)
(* buy_hold_return_pct are functions of the closes and of initial_capital  *)
(* alone, hence the same for every strategy, mode and leverage.            *)
(***************************************************************************)
C14_BuyAndHold ==
    Returned =>
        LET hold == results_df[1].hold_value
            n == Len(self_df)
        IN  /\ Len(hold) = n
            /\ \A b \in 2..(n - 1) :
                  hold[b + 1] = RMul(hold[b],
                                     RAdd(Rat(1), Norm(self_df[b + 1] - self_df[b],
                                                       self_df[b])))
            /\ \A b \in 1..(n - 1) :
                  hold[b + 1] = Norm(initial_capital * self_df[b + 1], self_df[1])
            /\ result[1].buy_hold_return_pct
                  = Norm((self_df[n] - self_df[1]) * 100, self_df[1])

\* a leveraged run in a position whose equity ends away from the benchmark,
\* the benchmark having moved
C14_Witness ==
    /\ Returned
    /\ mode = "leveraged"
    /\ leverage > 1
    /\ result[1].buy_hold_return_pct # Rat(0)
    /\ results_df[1].portfolio_value[Len(self_df)]
           # results_df[1].hold_value[Len(self_df)]
    /\ \E p \in 1..Len(self_df) : results_df[1].signal[p] = SHORT

RequiredHistory(st) ==
    IF st.kind = "breakout" THEN st.lookback + 2 ELSE st.slow_period

C16_InsufficientHistoryNeutral ==
    (/\ analysis # <<>>
     /\ Len(history) < RequiredHistory(StrategyNamed(analysis[1].strategy)))
        => /\ analysis[1].raised = ""
           /\ analysis[1].signal = NEUTRAL
           /\ analysis[1].confidence = Rat(0)

(***************************************************************************)
(* C17.  Hold-until-reversal: over the successive calls of analyze() on    *)
(* one crossover strategy object, a call with sufficient history emits     *)
(* LONG on a bar where the fast SMA crosses above the slow one, SHORT on a *)
(* bar where it crosses below, and on every other bar the signal of the    *)
(* call before (NEUTRAL when there was none); once a signal other than     *)
(* NEUTRAL was emitted, NEUTRAL is never emitted again.                    *)
(***************************************************************************)
\* the frame of the k-th call
FrameOfCall(k) == SubSeq(feed, 1, Len(feed) - (Len(emitted) - k))

C17_HoldUntilReversal ==
    /\ \A k \in 1..Len(emitted) :
          Len(FrameOfCall(k)) >= instance.slow_period + 2 =>
              emitted[k] =
                  IF BullishCross(instance, FrameOfCall(k)) THEN LONG
                  ELSE IF BearishCross(instance, FrameOfCall(k)) THEN SHORT
                  ELSE IF k = 1 THEN NEUTRAL
                  ELSE emitted[k - 1]
    /\ \A j, k \in 1..Len(emitted) :
          (j < k /\ emitted[j] # NEUTRAL) => emitted[k] # NEUTRAL

\* an object that went long on a cross, held through a bar without one, and
\* reversed on the opposite cross
C17_Witness ==
    \E j, k \in 1..Len(emitted) :
        /\ j + 1 < k
        /\ emitted[j] = LONG
        /\ BullishCross(instance, FrameOfCall(j))
        /\ emitted[j + 1] = LONG
        /\ ~BullishCross(instance, FrameOfCall(j + 1))
        /\ emitted[k] = SHORT
        /\ BearishCross(instance, FrameOfCall(k))

(***************************************************************************)
(* C18.  Batch error isolation: when run_all_backtests runs to its end,    *)
(* every asset of every timeframe was fetched, every strategy was          *)
(* attempted on every asset whose fetch returned, whatever failed before,  *)
(* and the summary files hold exactly the rows that were collected.        *)
(***************************************************************************)
SeqRange(s) == {s[k] : k \in 1..Len(s)}

C18_BatchErrorIsolation ==
    batch_pc = "done" =>
        /\ {<<f.timeframe, f.asset>> : f \in fetch_log}
              = SeqRange(BatchTimeframes) \X SeqRange(BatchAssets)
        /\ attempted
              = {<<f.timeframe, f.asset, s>> :
                    f \in {g \in fetch_log : g.ok}, s \in SeqRange(BatchStrategies)}
        /\ csv = collected
        /\ {<<r.timeframe, r.asset, r.strategy>> : r \in collected} \subseteq completed

\* a batch that ended after a failed fetch, a run on too short a frame and a
\* run that raised on a sufficient one, with a row collected before and a row
\* collected after an error
C18_Witness ==
    /\ batch_pc = "done"
    /\ \E f \in fetch_log : ~f.ok
    /\ \E c \in attempted \ completed :
           \E r \in csv : r.timeframe = c[1] /\ r.asset = c[2]
    /\ \E r \in csv : r.timeframe = BatchTimeframes[1]
    /\ \E r \in csv : r.timeframe = BatchTimeframes[Len(BatchTimeframes)]
    /\ attempted \ completed # {}

(***************************************************************************)
(* C19.  Run-granular cancellation: when the batch is stopped, the summary *)
(* files hold a row for every combination whose run completed before the   *)
(* stop, and no row for a run that did not complete.                       *)
(***************************************************************************)
C19_CancellationKeepsResults ==
    batch_pc = "stopped" =>
        /\ \A c \in completed :
              \E r \in csv :
                  r.timeframe = c[1] /\ r.asset = c[2] /\ r.strategy = c[3]
        /\ \A r \in csv : <<r.timeframe, r.asset, r.strategy>> \in completed

(***************************************************************************)
(* C20.  Ingestion ordering: run() never computes signals or returns over  *)
(* a frame whose timestamps are not strictly increasing.                   *)
(***************************************************************************)
StrictlyIncreasing(s) == \A p \in 2..Len(s) : s[p - 1] < s[p]

C20_IngestionOrdering ==
    (fetched /\ (pc = "signals" \/ outcome = "returned"))
        => StrictlyIncreasing(timestamps)

(***************************************************************************)
(* C21.  Moving averages: calculate_sma and calculate_ema return a series  *)
(* as long as the input, whose first period - 1 entries are NaN and whose  *)
(* entries from there on are defined.                                      *)
(***************************************************************************)
UndefinedUntil(values, period) ==
    \A p \in 1..Len(values) : IsNaN(values[p]) <=> p < period

C21_MovingAverageWarmUp ==
    (indicators # <<>> /\ indicators[1].fn \in {"calculate_sma", "calculate_ema"})
        => /\ Len(indicators[1].values) = Len(series_in)
           /\ UndefinedUntil(indicators[1].values, period_in)

\* the simple moving average alone
C21_SmaWarmUp ==
    (indicators # <<>> /\ indicators[1].fn = "calculate_sma")
        => /\ Len(indicators[1].values) = Len(series_in)
           /\ UndefinedUntil(indicators[1].values, period_in)

(***************************************************************************)
(* C22.  RSI boundary: at every row from which `period` observations       *)
(* exist and whose window holds no loss, rising or flat, calculate_rsi is  *)
(* 100.                                                                    *)
(***************************************************************************)
NoLossIn(s, lo, hi) == \A p \in lo..hi : p = 1 \/ s[p] >= s[p - 1]

C22_RsiBoundary ==
    (indicators # <<>> /\ indicators[1].fn = "calculate_rsi")
        => \A p \in period_in..Len(series_in) :
              NoLossIn(series_in, p - period_in + 1, p)
                  => indicators[1].values[p] = Rat(100)

\* the same where the window holds a gain
C22_RsiBoundaryRising ==
    (indicators # <<>> /\ indicators[1].fn = "calculate_rsi")
        => \A p \in period_in..Len(series_in) :
              (/\ NoLossIn(series_in, p - period_in + 1, p)
               /\ \E q \in (p - period_in + 1)..p : q > 1 /\ series_in[q] > series_in[q - 1])
                  => indicators[1].values[p] = Rat(100)

(***************************************************************************)
(* C23.  Leverage applies only in leveraged mode: the position return of   *)
(* every bar is the unleveraged one times 1 in a long_only Backtester,     *)
(* whatever leverage argument it was built with, and times exactly the     *)
(* leverage argument in a leveraged one.                                   *)
(***************************************************************************)
Multiplier == IF mode = "leveraged" THEN leverage_arg ELSE 1

C23_LeverageOnlyLeveraged ==
    Returned =>
        \A b \in 1..(Len(self_df) - 1) :
            results_df[1].strategy_returns[b + 1]
                = RMul(Rat(Multiplier),
                       Norm(results_df[1].signal[b] * (self_df[b + 1] - self_df[b]),
                            self_df[b]))

\* a long_only Backtester built with a leverage above 1 that held a position
\* over a bar whose close moved
C23_Witness ==
    /\ Returned
    /\ mode = "long_only"
    /\ leverage_arg > 1
    /\ \E b \in 1..(Len(self_df) - 1) :
           /\ results_df[1].signal[b] # NEUTRAL
           /\ self_df[b + 1] # self_df[b]

(***************************************************************************)
(* C26.  Benchmark period alignment: the buy-and-hold curve and the        *)
(* strategy curve both stand at initial_capital on the warm-up bar, and a  *)
(* strategy that is LONG on every bar from the warm-up bar on, without     *)
(* leverage, has outperformance 0.                                         *)
(***************************************************************************)
AlwaysLong == \A p \in (Warmup + 1)..Len(self_df) : results_df[1].signal[p] = LONG

C26_BenchmarkAlignment ==
    (Returned /\ Len(self_df) > Warmup) =>
        /\ results_df[1].portfolio_value[Warmup + 1] = Rat(initial_capital)
        /\ results_df[1].hold_value[Warmup + 1] = Rat(initial_capital)
        /\ (AlwaysLong /\ leverage = 1) => result[1].outperformance_pct = Rat(0)

\* the strategy curve alone
C26_StrategySeed ==
    (Returned /\ Len(self_df) > Warmup) =>
        results_df[1].portfolio_value[Warmup + 1] = Rat(initial_capital)

\* the outperformance of an always-LONG unleveraged run alone
C26_AlwaysLongOutperformance ==
    (Returned /\ Len(self_df) > Warmup /\ AlwaysLong /\ leverage = 1)
        => result[1].outperformance_pct = Rat(0)

(***************************************************************************)
(* C27.  Equity stays positive: in a leveraged Backtester run on positive  *)
(* closes, portfolio_value is strictly positive on every bar that has a    *)
(* value (all but bar 0).                                                  *)
(***************************************************************************)
C27_EquityPositive ==
    (Returned /\ mode = "leveraged") =>
        \A p \in 2..Len(self_df) : RLt(Rat(0), results_df[1].portfolio_value[p])

\* the same for a long_only Backtester
C27_EquityPositiveLongOnly ==
    (Returned /\ mode = "long_only") =>
        \A p \in 2..Len(self_df) : RLt(Rat(0), results_df[1].portfolio_value[p])

(***************************************************************************)
(* C24.  Cooldown in run_improved_backtest: two position changes are at    *)
(* least MIN_BARS_BETWEEN_TRADES bars apart.  Two entries of the trades    *)
(* list belong to one change when they are the close and the open of a     *)
(* reversal; an open followed by a close on the same bar is two changes.   *)
(***************************************************************************)
IsClose(t) == t.type \in {"close_long", "close_short"}
IsOpen(t) == t.type \in {"open_long", "open_short"}

OneReversal(k, l) ==
    /\ l = k + 1
    /\ replay_trades[k].bar = replay_trades[l].bar
    /\ IsClose(replay_trades[k])
    /\ IsOpen(replay_trades[l])

C24_Cooldown ==
    replay_loop = "improved" =>
        \A k, l \in 1..Len(replay_trades) :
            k < l =>
                \/ OneReversal(k, l)
                \/ replay_trades[l].bar - replay_trades[k].bar
                       >= MIN_BARS_BETWEEN_TRADES

\* a position was opened and, after the cooldown, reversed
C24_Witness ==
    /\ replay_loop = "improved"
    /\ Len(replay_trades) = 3
    /\ IsOpen(replay_trades[1])
    /\ OneReversal(2, 3)
    /\ replay_trades[2].bar - replay_trades[1].bar >= MIN_BARS_BETWEEN_TRADES

(***************************************************************************)
(* C28.  Position and entry price of the manual replay loops: after every  *)
(* bar, position is -1, 0 or 1, and entry_price is positive exactly when   *)
(* there is a position.                                                    *)
(***************************************************************************)
C28_EntryPriceInvariant ==
    replay_loop \in {"enhanced", "improved"} =>
        /\ replay_position \in {-1, 0, 1}
        /\ replay_entry_price > 0 <=> replay_position # 0

\* run_enhanced_backtest closed a position on a NEUTRAL signal and holds a
\* new one
C28_Witness ==
    /\ replay_loop = "enhanced"
    /\ replay_position # 0
    /\ Len(replay_trades) = 3
    /\ IsOpen(replay_trades[1])
    /\ IsClose(replay_trades[2])
    /\ IsOpen(replay_trades[3])
    /\ replay_trades[2].type # "close_" \o SideName(replay_position)

\* run_improved_backtest reversed a position on a pullback entry
C28_ImprovedReversed ==
    /\ replay_loop = "improved"
    /\ replay_position = -1
    /\ \E k \in 1..Len(replay_trades) : replay_trades[k].type = "close_long"

(***************************************************************************)
(* C25.  Strategy-name resolution: every key of                            *)
(* run_all_backtests.ALL_STRATEGIES resolves through get_strategy to the   *)
(* strategy registered under that key, never to the default SMAStrategy.   *)
(***************************************************************************)
RegisteredUnder(key) ==
    IF key \in DOMAIN BaseStrategies THEN BaseStrategies[key]
    ELSE IF key \in DOMAIN ADVANCED_STRATEGIES THEN ADVANCED_STRATEGIES[key]
    ELSE ADAPTIVE_STRATEGIES[key]

C25_NameResolution ==
    (resolved # <<>> /\ requested.text \in ALL_STRATEGIES)
        => resolved[1] = RegisteredUnder(requested.text)

\* the same for the keys of the base dict and of the advanced registry
C25_BaseAndAdvancedResolution ==
    (/\ resolved # <<>>
     /\ requested.text \in DOMAIN BaseStrategies \cup DOMAIN ADVANCED_STRATEGIES)
        => resolved[1] = RegisteredUnder(requested.text)

(***************************************************************************)
(* C29.  SimpleTrader state persistence: when execute_trade has returned   *)
(* True, the position and the entry price in the state file are those of   *)
(* the trader in memory.                                                   *)
(***************************************************************************)
C29_StatePersistence ==
    returned = "True" =>
        /\ state_file # <<>>
        /\ state_file[1] = SavedState(current_position, entry_price)

\* the trade history file is up to date
C29_HistoryPersistence ==
    returned = "True" => history_file = <<LastHundred(bot_trades)>>

(***************************************************************************)
(* C30.  KrakenLeveragedTrader.execute_signal in live mode: whenever a     *)
(* call has returned, normally or after an error in any step, the state    *)
(* file and the positions map in memory agree; and on a reversal the       *)
(* opposite position is only opened after the existing one was closed.     *)
(***************************************************************************)
ClosedBeforeOpened ==
    \A k \in 1..Len(orders) :
        orders[k].order \in {"open_long", "open_short"} =>
            \* the pair held no position when the order was sent
            LET before == {j \in 1..(k - 1) : orders[j].pair = orders[k].pair}
            IN  before = {}
                \/ orders[CHOOSE j \in before : \A h \in before : h <= j].order
                       \in {"close_long", "close_short"}

C30_StateAgreement ==
    (~kraken_dry_run /\ kraken_returned # "") =>
        /\ saved_positions = positions
        /\ ClosedBeforeOpened

\* the order of closing and opening alone
C30_ClosedBeforeOpened == ~kraken_dry_run => ClosedBeforeOpened

====
